---- MODULE Spec2Model ----
(***************************************************************************)
(* Model of the context-assembly / strategic-planning / knowledge-         *)
(* synthesis pipeline: ContextAssembler (src/src/agents/                    *)
(* context_assembler.py), InitialResearchNode (src/src/agents/             *)
(* initial_research_node.py) and the prompt templates they format.         *)
(*                                                                         *)
(* Python values whose type varies at run time are tagged records:         *)
(*   None, S(string), B(bool), N(int), L(list), D(dict).                   *)
(* A dict is a record (its keys are the record's domain), a list is a      *)
(* sequence, a string built by formatting is the sequence of its text      *)
(* fragments (T(s) is the one-fragment string s).                          *)
(***************************************************************************)
EXTENDS Integers, Sequences, FiniteSets, TLC

VARIABLES raw_context, last, prev

vars == <<raw_context, last, prev>>

(***************************************************************************)
(* Python values                                                           *)
(***************************************************************************)
None == [none |-> TRUE]
S(s) == [str |-> s]
T(s) == [str |-> <<s>>]
B(b) == [bool |-> b]
N(n) == [num |-> n]
L(q) == [list |-> q]
D(r) == [dict |-> r]

IsStr(v) == "str" \in DOMAIN v
IsBool(v) == "bool" \in DOMAIN v
IsNum(v) == "num" \in DOMAIN v
IsList(v) == "list" \in DOMAIN v
IsDict(v) == "dict" \in DOMAIN v

EmptyDict == <<>>

\* bool(v): Python truthiness
Truthy(v) ==
    IF v = None THEN FALSE
    ELSE IF IsBool(v) THEN v.bool
    ELSE IF IsNum(v) THEN v.num # 0
    ELSE IF IsStr(v) THEN v.str # <<>>
    ELSE IF IsList(v) THEN v.list # <<>>
    ELSE DOMAIN v.dict # {}

\* str(v) as an f-string renders it, as text fragments
Str(v) ==
    IF v = None THEN <<"None">>
    ELSE IF IsStr(v) THEN v.str
    ELSE IF IsBool(v) THEN (IF v.bool THEN <<"True">> ELSE <<"False">>)
    ELSE IF IsNum(v) THEN <<ToString(v.num)>>
    ELSE <<"<object>">>

\* outcome of a call: a returned value or a raised exception
Ok(v) == [ok |-> v]
Raise(e) == [exc |-> e]
IsOk(r) == "ok" \in DOMAIN r
Raised(r) == "exc" \in DOMAIN r

RECURSIVE Join(_, _)
\* sep.join(items), every item a sequence of fragments
Join(sep, items) ==
    IF items = <<>> THEN <<>>
    ELSE IF Len(items) = 1 THEN items[1]
    ELSE items[1] \o <<sep>> \o Join(sep, Tail(items))

\* s contains the fragments of sub, contiguously
Contains(s, sub) ==
    \E i \in 0..(Len(s) - Len(sub)) :
        \A j \in 1..Len(sub) : s[i + j] = sub[j]

\* q[:n]
Take(q, n) == SubSeq(q, 1, IF Len(q) < n THEN Len(q) ELSE n)

(***************************************************************************)
(* Bounds and input sets                                                   *)
(***************************************************************************)
Topics == {"AI", "Python"}

\* the topic carried by an intent result: a string, or None
TopicValues == {None} \cup {T(t) : t \in Topics}

(***************************************************************************)
(* context_assembler.py: mock data                                         *)
(***************************************************************************)
MOCK_USER_PROFILE ==
    [user_id |-> "user_123",
     name |-> "Alice",
     learning_style |-> "simple explanation, rich examples and analogies",
     content_preferences |-> [format |-> "markdown", depth |-> "comprehensive"]]

MOCK_BOOK_SUMMARIES ==
    << [title |-> "Intro to AI", topic |-> "AI", summary |-> "A beginner's guide to AI."],
       [title |-> "AI evals", topic |-> "AI evals", summary |-> "Overview of evaluation methods in AI."] >>

MOCK_USER_RESOURCES == <<>>

(***************************************************************************)
(* models/persona.py: the rich persona (get_hardcoded_sonu_persona), with  *)
(* the expertise map as the ordered list of its items                      *)
(***************************************************************************)
SonuGoal ==
    [goal_id |-> "pm_transition_2025",
     primary_goal |-> "become an AI product manager",
     specific_outcome |-> "get AI product manager entry level job",
     target_timeline |-> "6 months",
     priority |-> "high",
     success_metrics |-> << <<"Land interviews at AI companies">>,
                            <<"Understand AI evaluation frameworks">> >>]

SonuExpertise ==
    << [domain |-> "marketing", level |-> "intermediate", confidence |-> 8],
       [domain |-> "ux_design", level |-> "beginner_to_intermediate", confidence |-> 6],
       [domain |-> "product_management", level |-> "beginner", confidence |-> 5] >>

RichPersona(current_goals, core_expertise) ==
    [user_id |-> "sonu_12",
     learning_profile |->
        [learning_style |->
            [explanation_preference |-> "simple explanations with rich context",
             example_types |-> << <<"real-world applications">>, <<"case studies">> >>,
             visual_preferences |-> << <<"mermaid diagrams">>, <<"mindmaps">> >>,
             content_structure |-> "start basic, build to complete understanding"]],
     goals |-> [current_goals |-> current_goals],
     knowledge_foundation |->
        [core_expertise |-> core_expertise,
         ai_knowledge_state |->
            [current_level |-> "complete_beginner",
             specific_gaps |-> << <<"AI/ML fundamentals">>, <<"AI ethics and safety">> >>]],
     rag_existing_books_summary |-> "User has completed introductory readings."]

get_hardcoded_sonu_persona == RichPersona(<<SonuGoal>>, SonuExpertise)

\* the user_profile arguments: absent, the rich persona, and rich personas
\* with no current goal or no expertise entry
UserProfiles ==
    {None,
     get_hardcoded_sonu_persona,
     RichPersona(<<>>, SonuExpertise),
     RichPersona(<<SonuGoal>>, <<>>)}

\* the intent_result arguments: absent, or a dict with or without a topic
IntentResults ==
    {None, [intent |-> "unknown"]}
    \cup {[intent |-> "learn_topic", topic |-> t] : t \in TopicValues}

\* the longest list of existing books
MaxBooks == 4

Book(n) == [title |-> "Book " \o ToString(n), topic |-> "T", summary |-> "Sum"]

\* the existing_books arguments: absent, empty, one entry, MaxBooks entries
ExistingBooks == {None, L(<<>>)} \cup {L([i \in 1..n |-> Book(i)]) : n \in {1, MaxBooks}}

Resource == [title |-> "Notes", type |-> "pdf"]

\* the user_resources arguments: absent, or one resource
UserResources == {None, L(<<Resource>>)}

(***************************************************************************)
(* prompts/strategic_planner.py, prompts/initial_research.py: the          *)
(* replacement fields of the two templates                                 *)
(***************************************************************************)
STRATEGIC_PLANNING_PROMPT ==
    [name |-> "STRATEGIC_PLANNING_PROMPT",
     fields |-> {"user_resources_summary", "user_profile_summary", "learning_topic",
                 "current_expertise", "learning_preferences", "goals_timeline"}]

PERSONALIZED_TOC_PROMPT ==
    [name |-> "PERSONALIZED_TOC_PROMPT",
     fields |-> {"learning_topic", "primary_goal", "specific_outcome", "target_timeline",
                 "success_metrics", "explanation_preference", "example_types",
                 "visual_preferences", "content_structure", "core_expertise",
                 "knowledge_bridges", "specific_gaps", "rag_existing_books_summary",
                 "industry_benchmarks", "current_trends", "expert_recommendations"}]

\* template.format(**formatted_context): every replacement field of the
\* template must be a key of the context; the other keys are ignored
Format(template, formatted_context) ==
    IF template.fields \subseteq DOMAIN formatted_context
    THEN Ok([template |-> template.name,
             args |-> [f \in template.fields |-> formatted_context[f]]])
    ELSE Raise("KeyError")

\* d.get(k, default)
Get(d, k, default) == IF k \in DOMAIN d THEN d[k] ELSE default

\* domain.replace("_", " ").title() on the expertise domains
TitleCase(domain) ==
    CASE domain = "marketing" -> "Marketing"
      [] domain = "ux_design" -> "Ux Design"
      [] domain = "product_management" -> "Product Management"
      [] OTHER -> domain

\* variant: the topic is rendered as it is, None included
TopicOr_rendered(ctx, default) == Str(ctx.topic_context)

\* raw_context["topic_context"] or <default>
TopicOr(ctx, default) ==
    IF Truthy(ctx.topic_context) THEN Str(ctx.topic_context) ELSE <<default>>

(***************************************************************************)
(* ContextAssembler                                                        *)
(***************************************************************************)
\* user_profile or MOCK_USER_PROFILE, existing_books or MOCK_BOOK_SUMMARIES
OrDict(v, default) == IF v = None \/ DOMAIN v = {} THEN default ELSE v
OrList(v, default) == IF Truthy(v) THEN v.list ELSE default

topic_of(intent_result) ==
    IF intent_result = None \/ DOMAIN intent_result = {} THEN None
    ELSE Get(intent_result, "topic", None)

\* variant: an absent argument keeps what an earlier call stored
assemble_context_keeping(user_profile, intent_result, existing_books, user_resources) ==
    LET stored(key, default) == IF key \in DOMAIN raw_context THEN raw_context[key] ELSE default
    IN [user_profile |-> OrDict(user_profile, stored("user_profile", MOCK_USER_PROFILE)),
        topic_context |-> topic_of(intent_result),
        existing_knowledge |-> OrList(existing_books, stored("existing_knowledge", MOCK_BOOK_SUMMARIES)),
        resource_context |-> OrList(user_resources, stored("resource_context", MOCK_USER_RESOURCES)),
        user_feedback |-> None,
        toc_feedback |-> None]

assemble_context(user_profile, intent_result, existing_books, user_resources) ==
    [user_profile |-> OrDict(user_profile, MOCK_USER_PROFILE),
     topic_context |-> topic_of(intent_result),
     existing_knowledge |-> OrList(existing_books, MOCK_BOOK_SUMMARIES),
     resource_context |-> OrList(user_resources, MOCK_USER_RESOURCES),
     user_feedback |-> None,
     toc_feedback |-> None]

format_user_profile_summary(user_profile) ==
    <<"Name: ", Get(user_profile, "name", "User"),
      " (ID: ", Get(user_profile, "user_id", "unknown"),
      "), Learning Style: ", Get(user_profile, "learning_style", "Not specified")>>

format_learning_preferences(user_profile) ==
    LET content_prefs == Get(user_profile, "content_preferences", EmptyDict)
    IN <<"Style: ", Get(user_profile, "learning_style", "comprehensive with practical examples"),
         ", Format: ", Get(content_prefs, "format", "markdown"),
         ", Depth: ", Get(content_prefs, "depth", "comprehensive")>>

format_current_expertise(user_profile) ==
    IF "knowledge_foundation" \in DOMAIN user_profile
       /\ "core_expertise" \in DOMAIN user_profile.knowledge_foundation
    THEN LET core_expertise == user_profile.knowledge_foundation.core_expertise
             item(e) == <<TitleCase(e.domain), ": ", e.level,
                          " (confidence: ", ToString(e.confidence), "/10)">>
         IN Join("; ", [i \in 1..Len(core_expertise) |-> item(core_expertise[i])])
    ELSE <<"General learning background and experience">>

format_knowledge_gaps(user_profile) ==
    IF "knowledge_foundation" \in DOMAIN user_profile
       /\ "ai_knowledge_state" \in DOMAIN user_profile.knowledge_foundation
    THEN LET specific_gaps ==
                 Get(user_profile.knowledge_foundation.ai_knowledge_state, "specific_gaps", <<>>)
         IN IF specific_gaps # <<>> THEN Join("; ", specific_gaps)
            ELSE <<"Knowledge gaps to be identified">>
    ELSE <<"Fundamental concepts and practical applications">>

\* current_goals[0] raises IndexError on an empty list
format_goals_timeline(ctx, user_profile) ==
    IF "goals" \in DOMAIN user_profile /\ "current_goals" \in DOMAIN user_profile.goals
    THEN IF user_profile.goals.current_goals = <<>>
         THEN Raise("IndexError")
         ELSE LET goal == user_profile.goals.current_goals[1]
              IN Ok(<<"Goal: ", Get(goal, "primary_goal", "Learn effectively"),
                      ", Timeline: ", Get(goal, "target_timeline", "3-6 months")>>)
    ELSE Ok(<<"Goal: Learn ">> \o TopicOr(ctx, "this topic")
            \o <<" effectively, Timeline: 3-6 months">>)

format_user_resources(user_resources) ==
    IF user_resources = <<>> THEN <<"No user-provided resources">>
    ELSE LET top == Take(user_resources, 3)
             item(r) == <<"'", Get(r, "title", "Unnamed Resource"),
                          "' (", Get(r, "type", "unknown type"), ")">>
         IN Join("; ", [i \in 1..Len(top) |-> item(top[i])])

populate_strategic_planner_prompt(ctx) ==
    LET user_profile == ctx.user_profile
        goals_timeline == format_goals_timeline(ctx, user_profile)
    IN IF Raised(goals_timeline) THEN goals_timeline
       ELSE Format(STRATEGIC_PLANNING_PROMPT,
                [learning_topic |-> TopicOr(ctx, "Unknown Topic"),
                 user_profile_summary |-> format_user_profile_summary(user_profile),
                 learning_preferences |-> format_learning_preferences(user_profile),
                 current_expertise |-> format_current_expertise(user_profile),
                 knowledge_gaps |-> format_knowledge_gaps(user_profile),
                 goals_timeline |-> goals_timeline.ok,
                 user_resources |-> format_user_resources(ctx.resource_context)])

generate_knowledge_bridges(core_expertise, target_domain) ==
    LET qualifying == SelectSeq(core_expertise, LAMBDA e : e.confidence >= 6)
        bridges == [i \in 1..Len(qualifying) |->
                        <<TitleCase(qualifying[i].domain), " to ", target_domain>>]
    IN IF bridges # <<>> THEN Join(", ", bridges)
       ELSE <<"General knowledge to ", target_domain>>

summarize_existing_knowledge(existing_knowledge) ==
    IF existing_knowledge = <<>> THEN <<"No prior books found on this topic.">>
    ELSE LET top == Take(existing_knowledge, 3)
             item(b) == <<"'", Get(b, "title", "Unknown"),
                          "' (Topic: ", Get(b, "topic", "General"),
                          ") - ", Get(b, "summary", "No summary available")>>
         IN Join("; ", [i \in 1..Len(top) |-> item(top[i])])

populate_knowledge_synthesizer_prompt(ctx) ==
    LET user_profile == ctx.user_profile
        learning_topic == TopicOr(ctx, "Unknown Topic")
        existing_knowledge == ctx.existing_knowledge
    IN IF "goals" \in DOMAIN user_profile /\ "learning_profile" \in DOMAIN user_profile
       THEN IF "current_goals" \notin DOMAIN user_profile.goals THEN Raise("KeyError")
            ELSE IF user_profile.goals.current_goals = <<>> THEN Raise("IndexError")
            ELSE IF "knowledge_foundation" \notin DOMAIN user_profile THEN Raise("KeyError")
            ELSE
              LET goal == user_profile.goals.current_goals[1]
                  learning_style == user_profile.learning_profile.learning_style
                  core_expertise == user_profile.knowledge_foundation.core_expertise
                  specific_gaps == user_profile.knowledge_foundation.ai_knowledge_state.specific_gaps
                  item(e) == <<e.domain, ": ", e.level, " (", ToString(e.confidence), "/10)">>
              IN Format(PERSONALIZED_TOC_PROMPT,
                   [learning_topic |-> learning_topic,
                    primary_goal |-> <<goal.primary_goal>>,
                    specific_outcome |-> <<goal.specific_outcome>>,
                    target_timeline |-> <<goal.target_timeline>>,
                    success_metrics |-> Join(", ", goal.success_metrics),
                    explanation_preference |-> <<learning_style.explanation_preference>>,
                    example_types |-> Join(", ", learning_style.example_types),
                    visual_preferences |-> Join(", ", learning_style.visual_preferences),
                    content_structure |-> <<learning_style.content_structure>>,
                    core_expertise |->
                        Join("; ", [i \in 1..Len(core_expertise) |-> item(core_expertise[i])]),
                    knowledge_bridges |-> generate_knowledge_bridges(core_expertise, "AI"),
                    specific_gaps |-> Join(", ", specific_gaps),
                    rag_existing_books_summary |->
                        IF "rag_existing_books_summary" \in DOMAIN user_profile
                        THEN <<user_profile.rag_existing_books_summary>>
                        ELSE summarize_existing_knowledge(existing_knowledge),
                    industry_benchmarks |-> <<"AI product management curriculum from top universities.">>,
                    current_trends |-> <<"Emphasis on practical AI evaluation, LLM safety, and real-world case studies.">>,
                    expert_recommendations |-> <<"Follow learning paths from leading AI PMs and product teams.">>])
       ELSE Format(PERSONALIZED_TOC_PROMPT,
              [learning_topic |-> learning_topic,
               primary_goal |-> <<"Learn ">> \o learning_topic \o <<" effectively">>,
               specific_outcome |-> <<"Gain practical knowledge in ">> \o learning_topic,
               target_timeline |-> <<"3-6 months">>,
               success_metrics |-> <<"Understand core concepts, Apply ">> \o learning_topic
                                   \o <<" in practice, Build confidence">>,
               explanation_preference |-> <<"clear explanations with rich context">>,
               example_types |-> <<"real-world applications, practical examples, case studies">>,
               visual_preferences |-> <<"diagrams, mindmaps, flowcharts">>,
               content_structure |-> <<"start basic, build to comprehensive understanding">>,
               core_expertise |-> <<"General knowledge and learning experience">>,
               knowledge_bridges |-> <<"Existing knowledge to ">> \o learning_topic,
               specific_gaps |-> <<"Fundamental concepts in ">> \o learning_topic,
               rag_existing_books_summary |-> summarize_existing_knowledge(existing_knowledge),
               industry_benchmarks |-> <<"Standard curriculum for ">> \o learning_topic \o <<".">>,
               current_trends |-> <<"Current best practices and trends in ">> \o learning_topic
                                  \o <<".">>,
               expert_recommendations |-> <<"Follow learning paths recommended by ">>
                                          \o learning_topic \o <<" experts.">>])

populate_intelligence_gatherer_prompt(ctx) ==
    Ok([template |-> "INTELLIGENCE_GATHERER_PLACEHOLDER",
        args |-> [learning_topic |-> TopicOr(ctx, "Unknown Topic")]])

\* the consumer names tried: the three the code routes, and one it does not
NodeNames == {"strategic_planner", "knowledge_synthesizer", "intelligence_gatherer", "quality_assurance"}

\* variant: the consumer name is looked at before the stored context
get_populated_prompt_name_first(ctx, node_name) ==
    IF node_name \notin {"strategic_planner", "knowledge_synthesizer", "intelligence_gatherer"}
    THEN Raise("ValueError")
    ELSE IF DOMAIN ctx = {} THEN Raise("RuntimeError")
    ELSE IF node_name = "strategic_planner" THEN populate_strategic_planner_prompt(ctx)
    ELSE IF node_name = "knowledge_synthesizer" THEN populate_knowledge_synthesizer_prompt(ctx)
    ELSE populate_intelligence_gatherer_prompt(ctx)

\* variant: a name that is not routed gets the last prompt instead of an error
get_populated_prompt_default_route(ctx, node_name) ==
    IF DOMAIN ctx = {} THEN Raise("RuntimeError")
    ELSE IF node_name = "strategic_planner" THEN populate_strategic_planner_prompt(ctx)
    ELSE IF node_name = "knowledge_synthesizer" THEN populate_knowledge_synthesizer_prompt(ctx)
    ELSE populate_intelligence_gatherer_prompt(ctx)

get_populated_prompt(ctx, node_name) ==
    IF DOMAIN ctx = {} THEN Raise("RuntimeError")
    ELSE IF node_name = "strategic_planner" THEN populate_strategic_planner_prompt(ctx)
    ELSE IF node_name = "knowledge_synthesizer" THEN populate_knowledge_synthesizer_prompt(ctx)
    ELSE IF node_name = "intelligence_gatherer" THEN populate_intelligence_gatherer_prompt(ctx)
    ELSE Raise("ValueError")

(***************************************************************************)
(* Response text of the generation service.  A text is a sequence of       *)
(* tokens: a code fence, the language tag "json", whitespace, prose        *)
(* without brackets, the brackets of the outermost array, the braces of an *)
(* object wrapped around an array, and named tokens that stand for a JSON   *)
(* object or for the elements of a JSON array.                             *)
(***************************************************************************)
FENCE == "<three backticks>"
JSONTAG == "json"
WS == "<newline>"
PROSE == "not json at all"
LBRACKET == "["
RBRACKET == "]"
OPEN_WRAP == "{ agent_plans :"
CLOSE_WRAP == "}"

Task(task_name, task_priority, expected_outcome, user_resource_connection) ==
    D([task_name |-> task_name,
       task_status |-> T("pending"),
       task_priority |-> task_priority,
       expected_outcome |-> expected_outcome,
       user_resource_connection |-> user_resource_connection])

AgentPlan(child_agent_name, activation, research_plan) ==
    D([child_agent_name |-> child_agent_name,
       activation |-> activation,
       research_plan |-> research_plan])

KS == T("knowledge_synthesizer")
IG == T("intelligence_gatherer")

TaskCritical == Task(T("Master fundamentals"), T("critical"), T("X"), T("Use uploaded notes"))
TaskHigh == Task(T("Advanced expert topics"), T("high"), T("Y"), S(<<>>))
TaskMedium == Task(T("Practice"), T("medium"), T("Z"), T("Link to goals"))
TaskLow == Task(T("Scan news"), T("low"), T("W"), T("None needed"))

\* the elements of the arrays a planning response may carry
ArrayBodyNames ==
    {"<ks+ig>", "<ks no tasks>", "<ks off>", "<ks activation string>", "<ig only>",
     "<bad priority>", "<task lacks field>", "<plan lacks field>", "<text element>",
     "<ks+other agent>", "<ks+unnamed agent>", "<ks on+ks off>"}

ArrayBodies ==
    [n \in ArrayBodyNames |->
      CASE n = "<ks+ig>" ->
             <<AgentPlan(KS, B(TRUE), L(<<TaskCritical, TaskHigh, TaskMedium>>)),
               AgentPlan(IG, B(FALSE), L(<<TaskLow>>))>>
        [] n = "<ks no tasks>" -> <<AgentPlan(KS, B(TRUE), L(<<>>))>>
        [] n = "<ks off>" -> <<AgentPlan(KS, B(FALSE), L(<<TaskCritical>>))>>
        [] n = "<ks activation string>" -> <<AgentPlan(KS, T("false"), L(<<TaskCritical>>))>>
        [] n = "<ig only>" -> <<AgentPlan(IG, B(TRUE), L(<<TaskLow>>))>>
        [] n = "<bad priority>" ->
             <<AgentPlan(KS, B(TRUE),
                 L(<<Task(T("Practice"), T("urgent"), T("Z"), S(<<>>))>>))>>
        [] n = "<task lacks field>" ->
             <<AgentPlan(KS, B(TRUE),
                 L(<<TaskCritical, D([task_name |-> T("Practice"), task_priority |-> T("high")])>>))>>
        [] n = "<plan lacks field>" ->
             <<D([child_agent_name |-> KS, activation |-> B(TRUE)])>>
        [] n = "<text element>" -> <<T("knowledge_synthesizer")>>
        [] n = "<ks+other agent>" ->
             <<AgentPlan(KS, B(TRUE), L(<<TaskCritical>>)),
               AgentPlan(T("quality_assurance"), B(TRUE), L(<<TaskLow>>))>>
        [] n = "<ks+unnamed agent>" ->
             <<AgentPlan(KS, B(TRUE), L(<<TaskCritical>>)),
               AgentPlan(None, B(TRUE), L(<<TaskLow>>))>>
        [] n = "<ks on+ks off>" ->
             <<AgentPlan(KS, B(TRUE), L(<<TaskCritical>>)),
               AgentPlan(KS, B(FALSE), L(<<TaskLow>>))>>]

\* the largest number of chapters in a synthesis response
MaxChapters == 2

Chapter(n) ==
    D([chapter_number |-> N(n),
       title |-> S(<<"Chapter ", ToString(n)>>),
       summary |-> T("Summary"),
       personalization_rationale |-> T("Rationale")])

BookDoc(chapters) ==
    D([title |-> T("Generated book"), introduction |-> T("Generated introduction"),
       chapters |-> chapters])

ChapterLists == {[i \in 1..n |-> Chapter(i)] : n \in 1..MaxChapters}

\* the JSON objects and scalars a response may carry
ObjectDocNames ==
    {"<book " \o ToString(n) \o ">" : n \in 1..MaxChapters}
    \cup {"<book misnumbered>", "<book extra keys>", "<book no title>", "<book no chapters key>",
          "<book empty chapters>", "<book chapters not a list>", "<book incomplete chapter>",
          "<book text chapter>", "<object>", "<number>"}

ObjectDocs ==
    [n \in ObjectDocNames |->
      CASE n = "<book misnumbered>" -> BookDoc(L(<<Chapter(2), Chapter(2)>>))
        [] n = "<book extra keys>" ->
             D([title |-> T("Generated book"), introduction |-> T("Generated introduction"),
                chapters |-> L(<<D([chapter_number |-> N(1), title |-> T("Chapter"),
                                    summary |-> T("Summary"),
                                    personalization_rationale |-> T("Rationale"),
                                    pages |-> N(10)])>>),
                audience |-> T("beginners")])
        [] n = "<book no title>" ->
             D([introduction |-> T("Generated introduction"), chapters |-> L(<<Chapter(1)>>)])
        [] n = "<book no chapters key>" ->
             D([title |-> T("Generated book"), introduction |-> T("Generated introduction")])
        [] n = "<book empty chapters>" -> BookDoc(L(<<>>))
        [] n = "<book chapters not a list>" -> BookDoc(T("Chapter 1"))
        [] n = "<book incomplete chapter>" ->
             BookDoc(L(<<Chapter(1), D([chapter_number |-> N(2), title |-> T("Chapter")])>>))
        [] n = "<book text chapter>" -> BookDoc(L(<<T("Chapter 1")>>))
        [] n = "<object>" -> D([status |-> T("ok")])
        [] n = "<number>" -> N(42)
        [] OTHER ->
             BookDoc(L(CHOOSE c \in ChapterLists : n = "<book " \o ToString(Len(c)) \o ">"))]

RECURSIVE LStrip(_)
LStrip(t) == IF t # <<>> /\ Head(t) = WS THEN LStrip(Tail(t)) ELSE t

RECURSIVE RStrip(_)
RStrip(t) == IF t # <<>> /\ t[Len(t)] = WS THEN RStrip(SubSeq(t, 1, Len(t) - 1)) ELSE t

\* text.strip()
Strip(t) == RStrip(LStrip(t))

StartsWith(t, prefix) == Len(t) >= Len(prefix) /\ SubSeq(t, 1, Len(prefix)) = prefix
EndsWith(t, suffix) ==
    Len(t) >= Len(suffix) /\ SubSeq(t, Len(t) - Len(suffix) + 1, Len(t)) = suffix
DropFirst(t, n) == SubSeq(t, n + 1, Len(t))
DropLast(t, n) == SubSeq(t, 1, Len(t) - n)

\* text.find(token) and text.rfind(token), 1-based, 0 when absent
Find(t, token) ==
    IF \E i \in 1..Len(t) : t[i] = token
    THEN CHOOSE i \in 1..Len(t) : t[i] = token /\ \A j \in 1..(i - 1) : t[j] # token
    ELSE 0
RFind(t, token) ==
    IF \E i \in 1..Len(t) : t[i] = token
    THEN CHOOSE i \in 1..Len(t) : t[i] = token /\ \A j \in (i + 1)..Len(t) : t[j] # token
    ELSE 0

\* json.loads(text): whitespace between the tokens of a document is
\* insignificant; anything that is not exactly one document is an error
json_loads(text) ==
    LET t == SelectSeq(text, LAMBDA x : x # WS)
    IN IF t = <<LBRACKET, RBRACKET>> THEN Ok(L(<<>>))
       ELSE IF Len(t) = 3 /\ t[1] = LBRACKET /\ t[3] = RBRACKET /\ t[2] \in ArrayBodyNames
            THEN Ok(L(ArrayBodies[t[2]]))
       ELSE IF Len(t) = 1 /\ t[1] \in ObjectDocNames THEN Ok(ObjectDocs[t[1]])
       ELSE IF Len(t) = 5 /\ t[1] = OPEN_WRAP /\ t[2] = LBRACKET /\ t[4] = RBRACKET
               /\ t[5] = CLOSE_WRAP /\ t[3] \in ArrayBodyNames
            THEN Ok(D([agent_plans |-> L(ArrayBodies[t[3]])]))
       ELSE Raise("JSONDecodeError")

\* uuid.uuid4().hex[:8] and datetime.now().isoformat() of one run
Stamps == {[uuid |-> "1a2b3c4d", now |-> "2025-01-15T10:00:00"],
           [uuid |-> "5e6f7a8b", now |-> "2025-01-15T10:00:07"]}

PRIORITIES == {T("critical"), T("high"), T("medium"), T("low")}
REQUIRED_PLAN_FIELDS == {"child_agent_name", "activation", "research_plan"}
REQUIRED_TASK_FIELDS ==
    {"task_name", "task_status", "task_priority", "expected_outcome", "user_resource_connection"}

\* the checks of one task; a task that is no dict fails at task[...]
task_valid(task) ==
    /\ IsDict(task)
    /\ REQUIRED_TASK_FIELDS \subseteq DOMAIN task.dict
    /\ task.dict.task_priority \in PRIORITIES

\* the checks of one agent plan; an element that is no dict fails at agent_plan[...]
agent_plan_valid(agent_plan) ==
    /\ IsDict(agent_plan)
    /\ REQUIRED_PLAN_FIELDS \subseteq DOMAIN agent_plan.dict
    /\ (agent_plan.dict.child_agent_name = KS => Truthy(agent_plan.dict.activation))
    /\ IsList(agent_plan.dict.research_plan)
    /\ \A i \in 1..Len(agent_plan.dict.research_plan.list) :
           task_valid(agent_plan.dict.research_plan.list[i])

\* the text without the prefix, or without the suffix, when it has it
RemovePrefix(t, prefix) == IF StartsWith(t, prefix) THEN DropFirst(t, Len(prefix)) ELSE t
RemoveSuffix(t, suffix) == IF EndsWith(t, suffix) THEN DropLast(t, Len(suffix)) ELSE t

\* cleaned_response[start_bracket:end_bracket + 1] when both brackets are
\* found and the first comes before the last
Between(t, start_bracket, end_bracket) ==
    IF start_bracket # 0 /\ end_bracket # 0 /\ start_bracket < end_bracket
    THEN SubSeq(t, start_bracket, end_bracket)
    ELSE t

ArrayPart(t) == Between(t, Find(t, LBRACKET), RFind(t, RBRACKET))

clean_plan_response(raw_response) ==
    Strip(ArrayPart(Strip(
        RemoveSuffix(RemovePrefix(RemovePrefix(Strip(raw_response), <<FENCE, JSONTAG>>),
                                  <<FENCE>>),
                     <<FENCE>>))))

\* the checks on the value json.loads returned, and the plan built from it
validated_execution_plan(parsed, stamp) ==
    IF Raised(parsed) THEN Raise("ValueError")
    ELSE IF ~IsList(parsed.ok) THEN Raise("ValueError")
    ELSE IF \E i \in 1..Len(parsed.ok.list) : ~agent_plan_valid(parsed.ok.list[i])
    THEN Raise("ValueError")
    ELSE IF ~\E i \in 1..Len(parsed.ok.list) : parsed.ok.list[i].dict.child_agent_name = KS
    THEN Raise("ValueError")
    ELSE Ok([plan_id |-> <<"plan_", stamp.uuid>>,
             agent_plans |-> parsed.ok.list,
             created_at |-> stamp.now])

parse_and_validate_execution_plan(raw_response, stamp) ==
    validated_execution_plan(json_loads(clean_plan_response(raw_response)), stamp)

REQUIRED_BOOK_FIELDS == {"title", "introduction", "chapters"}
REQUIRED_CHAPTER_FIELDS == {"chapter_number", "title", "summary", "personalization_rationale"}

BookChapter(chapter) ==
    [f \in REQUIRED_CHAPTER_FIELDS |-> chapter[f]]

\* variant: the code fence around the document is left in place
clean_toc_response_fenced(raw_response) == Strip(raw_response)

clean_toc_response(raw_response) ==
    Strip(RemoveSuffix(RemovePrefix(Strip(raw_response), <<FENCE, JSONTAG>>), <<FENCE>>))

\* variant: the check for an empty chapter list is missing
chapters_valid_any_length(chapters) ==
    /\ IsList(chapters)
    /\ \A i \in 1..Len(chapters.list) :
           /\ IsDict(chapters.list[i])
           /\ REQUIRED_CHAPTER_FIELDS \subseteq DOMAIN chapters.list[i].dict

\* the checks on parsed_data["chapters"]; a chapter that is no dict fails at
\* chapter[...]
chapters_valid(chapters) ==
    /\ IsList(chapters)
    /\ chapters.list # <<>>
    /\ \A i \in 1..Len(chapters.list) :
           /\ IsDict(chapters.list[i])
           /\ REQUIRED_CHAPTER_FIELDS \subseteq DOMAIN chapters.list[i].dict

\* variant: the chapters that lack a field are left out and the others returned
validated_book_structure_partial(parsed) ==
    IF Raised(parsed) THEN Raise("ValueError")
    ELSE IF ~IsDict(parsed.ok) THEN Raise("ValueError")
    ELSE IF ~(REQUIRED_BOOK_FIELDS \subseteq DOMAIN parsed.ok.dict) THEN Raise("ValueError")
    ELSE IF ~IsList(parsed.ok.dict.chapters) THEN Raise("ValueError")
    ELSE IF SelectSeq(parsed.ok.dict.chapters.list, LAMBDA c : chapters_valid(L(<<c>>))) = <<>>
    THEN Raise("ValueError")
    ELSE Ok([title |-> parsed.ok.dict.title,
             introduction |-> parsed.ok.dict.introduction,
             chapters |-> [i \in 1..Len(SelectSeq(parsed.ok.dict.chapters.list,
                                                  LAMBDA c : chapters_valid(L(<<c>>)))) |->
                              BookChapter(SelectSeq(parsed.ok.dict.chapters.list,
                                                    LAMBDA c : chapters_valid(L(<<c>>)))[i].dict)]])

\* the checks on the value json.loads returned, and the structure built from it
validated_book_structure(parsed) ==
    IF Raised(parsed) THEN Raise("ValueError")
    ELSE IF ~IsDict(parsed.ok) THEN Raise("ValueError")
    ELSE IF ~(REQUIRED_BOOK_FIELDS \subseteq DOMAIN parsed.ok.dict) THEN Raise("ValueError")
    ELSE IF ~chapters_valid(parsed.ok.dict.chapters) THEN Raise("ValueError")
    ELSE Ok([title |-> parsed.ok.dict.title,
             introduction |-> parsed.ok.dict.introduction,
             chapters |-> [i \in 1..Len(parsed.ok.dict.chapters.list) |->
                              BookChapter(parsed.ok.dict.chapters.list[i].dict)]])

parse_and_validate_response(raw_response) ==
    validated_book_structure(json_loads(clean_toc_response(raw_response)))

(***************************************************************************)
(* InitialResearchNode: fallbacks and plan guidance                        *)
(***************************************************************************)
\* variant: the first fallback task carries a priority outside the four levels
create_fallback_execution_plan_urgent(learning_topic, stamp) ==
    LET topic == Str(learning_topic)
        fallback_agent_plans ==
          << AgentPlan(KS, B(TRUE),
               L(<< Task(S(<<"Generate comprehensive personalized ToC for ">> \o topic),
                         T("urgent"),
                         S(<<"Complete table of contents covering ">> \o topic
                             \o <<" fundamentals and applications">>),
                         T("Build foundation that complements any existing user knowledge")),
                    Task(S(<<"Identify prerequisite concepts for ">> \o topic),
                         T("high"),
                         S(<<"Clear understanding of what knowledge is needed before learning ">>
                             \o topic),
                         T("Ensure learning path builds on user's current expertise level")),
                    Task(S(<<"Create practical application roadmap for ">> \o topic),
                         T("medium"),
                         S(<<"Actionable projects and exercises for applying ">> \o topic
                             \o <<" knowledge">>),
                         T("Connect theoretical concepts to user's practical goals")) >>)),
             AgentPlan(IG, B(FALSE),
               L(<< Task(T("No intelligence gathering needed for fallback plan"),
                         T("low"),
                         T("Intelligence gatherer not activated in fallback mode"),
                         T("Fallback relies on existing knowledge synthesis only")) >>)) >>
    IN [execution_plan |-> [plan_id |-> <<"fallback_", stamp.uuid>>,
                            agent_plans |-> fallback_agent_plans,
                            created_at |-> stamp.now],
        planning_success |-> FALSE]

create_fallback_execution_plan(learning_topic, stamp) ==
    LET topic == Str(learning_topic)
        fallback_agent_plans ==
          << AgentPlan(KS, B(TRUE),
               L(<< Task(S(<<"Generate comprehensive personalized ToC for ">> \o topic),
                         T("critical"),
                         S(<<"Complete table of contents covering ">> \o topic
                             \o <<" fundamentals and applications">>),
                         T("Build foundation that complements any existing user knowledge")),
                    Task(S(<<"Identify prerequisite concepts for ">> \o topic),
                         T("high"),
                         S(<<"Clear understanding of what knowledge is needed before learning ">>
                             \o topic),
                         T("Ensure learning path builds on user's current expertise level")),
                    Task(S(<<"Create practical application roadmap for ">> \o topic),
                         T("medium"),
                         S(<<"Actionable projects and exercises for applying ">> \o topic
                             \o <<" knowledge">>),
                         T("Connect theoretical concepts to user's practical goals")) >>)),
             AgentPlan(IG, B(FALSE),
               L(<< Task(T("No intelligence gathering needed for fallback plan"),
                         T("low"),
                         T("Intelligence gatherer not activated in fallback mode"),
                         T("Fallback relies on existing knowledge synthesis only")) >>)) >>
    IN [execution_plan |-> [plan_id |-> <<"fallback_", stamp.uuid>>,
                            agent_plans |-> fallback_agent_plans,
                            created_at |-> stamp.now],
        planning_success |-> FALSE]

create_fallback_response(topic_value) ==
    LET topic == Str(topic_value)
    IN [book_structure |->
         [title |-> S(<<"Learning ">> \o topic \o <<": A Personalized Guide">>),
          introduction |-> S(<<"This book is designed to help you learn ">> \o topic
                               \o <<" based on your specific background and goals.">>),
          chapters |->
            << [chapter_number |-> N(1),
                title |-> S(<<"Introduction to ">> \o topic),
                summary |-> S(<<"Fundamental concepts and overview of ">> \o topic),
                personalization_rationale |->
                    T("Starting with basics to build a solid foundation")],
               [chapter_number |-> N(2),
                title |-> S(<<"Core Concepts in ">> \o topic),
                summary |-> S(<<"Deep dive into the essential elements of ">> \o topic),
                personalization_rationale |->
                    T("Building on your existing knowledge to accelerate learning")],
               [chapter_number |-> N(3),
                title |-> S(<<"Practical Applications of ">> \o topic),
                summary |-> S(<<"Real-world examples and hands-on practice with ">> \o topic),
                personalization_rationale |->
                    T("Connecting theory to practice for immediate application")] >>]]

\* the keywords of the focus areas that occur in task_name.lower(), per fragment
FragmentKeywords(fragment) ==
    CASE fragment = "Master fundamentals" -> {"fundamental"}
      [] fragment = "Advanced expert topics" -> {"advanced", "expert"}
      [] fragment = "Create practical application roadmap for " -> {"practical", "application"}
      [] OTHER -> {}

NameKeywords(task_name) == UNION {FragmentKeywords(task_name.str[i]) : i \in 1..Len(task_name.str)}

FocusAreasOf(task_name) ==
    (IF NameKeywords(task_name) \cap {"fundamental", "basic"} # {} THEN {"fundamentals"} ELSE {})
    \cup (IF NameKeywords(task_name) \cap {"practical", "application"} # {}
          THEN {"practical_applications"} ELSE {})
    \cup (IF NameKeywords(task_name) \cap {"advanced", "expert"} # {}
          THEN {"advanced_concepts"} ELSE {})

\* the orders in which list(set(areas)) may enumerate a set
Orderings(areas) ==
    {q \in [1..Cardinality(areas) -> areas] : \A i, j \in 1..Cardinality(areas) : q[i] = q[j] => i = j}

RECURSIVE find_knowledge_synthesizer(_)
\* the first agent plan named knowledge_synthesizer; agent_plan.get fails on a non-dict
find_knowledge_synthesizer(agent_plans) ==
    IF agent_plans = <<>> THEN Ok(None)
    ELSE IF ~IsDict(Head(agent_plans)) THEN Raise("AttributeError")
    ELSE IF Get(Head(agent_plans).dict, "child_agent_name", None) = KS THEN Ok(Head(agent_plans))
    ELSE find_knowledge_synthesizer(Tail(agent_plans))

\* the tasks a loop over research_plan visits
iterate_research_plan(research_plan) ==
    IF IsList(research_plan) THEN Ok(research_plan.list)
    ELSE IF ~Truthy(research_plan) /\ (IsStr(research_plan) \/ IsDict(research_plan)) THEN Ok(<<>>)
    ELSE IF IsStr(research_plan) \/ IsDict(research_plan) THEN Raise("AttributeError")
    ELSE Raise("TypeError")

\* task.get(...) fails on a task that is no dict, task_name.lower() on a
\* name that is no string
tasks_read(tasks) ==
    IF Raised(tasks) THEN tasks
    ELSE IF \E i \in 1..Len(tasks.ok) :
               \/ ~IsDict(tasks.ok[i])
               \/ ~IsStr(Get(tasks.ok[i].dict, "task_name", S(<<>>)))
    THEN Raise("AttributeError")
    ELSE tasks

\* the research plan of the entry found, when the guidance derivation gets
\* as far as reading its tasks
research_plan_of(found) ==
    IF Raised(found) THEN found
    ELSE IF found.ok = None THEN Ok(<<>>)
    ELSE tasks_read(iterate_research_plan(Get(found.ok.dict, "research_plan", L(<<>>))))

guidance_tasks(execution_plan) ==
    research_plan_of(find_knowledge_synthesizer(Get(execution_plan, "agent_plans", <<>>)))

focus_areas_of(tasks) ==
    IF Raised(tasks) THEN {}
    ELSE UNION {FocusAreasOf(Get(tasks.ok[i].dict, "task_name", S(<<>>))) : i \in 1..Len(tasks.ok)}

plan_focus_areas(execution_plan) == focus_areas_of(guidance_tasks(execution_plan))

\* f"{task_name}: {expected_outcome}"
task_entry(task) ==
    Str(Get(task.dict, "task_name", S(<<>>))) \o <<": ">>
    \o Str(Get(task.dict, "expected_outcome", S(<<>>)))

\* variant: the tasks are not grouped, every task is listed under every heading
tasks_with_any_priority(research_plan, priority) ==
    [i \in 1..Len(research_plan) |-> task_entry(research_plan[i])]

\* the entries of the tasks of one priority
tasks_with(research_plan, priority) ==
    [i \in 1..Len(SelectSeq(research_plan,
                            LAMBDA task : Get(task.dict, "task_priority", T("medium")) = priority))
       |-> task_entry(SelectSeq(research_plan,
                                LAMBDA task : Get(task.dict, "task_priority", T("medium"))
                                              = priority)[i])]

\* the truthy user_resource_connection values, limited to the first 2
user_connections_of(research_plan) ==
    [i \in 1..Len(Take(SelectSeq(research_plan,
                                 LAMBDA task : Truthy(Get(task.dict, "user_resource_connection",
                                                          S(<<>>)))), 2))
       |-> Get(SelectSeq(research_plan,
                         LAMBDA task : Truthy(Get(task.dict, "user_resource_connection",
                                                  S(<<>>))))[i].dict,
               "user_resource_connection", S(<<>>))]

\* variant: the two thresholds are exclusive
quality_standard_exclusive(task_count) ==
    IF task_count > 5
    THEN <<"**QUALITY STANDARD**: Comprehensive coverage - ensure deep personalization">>
    ELSE IF task_count > 3
    THEN <<"**QUALITY STANDARD**: Balanced approach - focus on core concepts with personalization">>
    ELSE <<"**QUALITY STANDARD**: Focused approach - prioritize essential concepts">>

quality_standard(task_count) ==
    IF task_count >= 5
    THEN <<"**QUALITY STANDARD**: Comprehensive coverage - ensure deep personalization">>
    ELSE IF task_count >= 3
    THEN <<"**QUALITY STANDARD**: Balanced approach - focus on core concepts with personalization">>
    ELSE <<"**QUALITY STANDARD**: Focused approach - prioritize essential concepts">>

\* one part of the guidance, when its list is not empty
guidance_part(heading, sep, items) ==
    IF items # <<>> THEN << <<heading>> \o Join(sep, items) >> ELSE <<>>

\* '; '.join(user_connections[:2]) fails on a connection that is no string
guidance_parts(critical_tasks, high_priority_tasks, order, user_connections, task_count) ==
    IF \E i \in 1..Len(user_connections) : ~IsStr(user_connections[i])
    THEN Raise("TypeError")
    ELSE Ok(guidance_part("**CRITICAL PRIORITIES**: ", "; ", critical_tasks)
            \o guidance_part("**HIGH PRIORITY TASKS**: ", "; ", high_priority_tasks)
            \o guidance_part("**STRATEGIC FOCUS AREAS**: ", ", ",
                             [i \in 1..Len(order) |-> <<order[i]>>])
            \o guidance_part("**USER RESOURCE INTEGRATION**: ", "; ",
                             [i \in 1..Len(user_connections) |-> Str(user_connections[i])])
            \o <<quality_standard(task_count)>>)

guidance_of(found, tasks, order) ==
    IF Raised(found) THEN found
    ELSE IF found.ok = None
    THEN Ok(<< <<"**STRATEGIC GUIDANCE**: Use general comprehensive approach for ToC generation">> >>)
    ELSE IF Raised(tasks) THEN tasks
    ELSE guidance_parts(tasks_with(tasks.ok, T("critical")), tasks_with(tasks.ok, T("high")),
                        order, user_connections_of(tasks.ok), Len(tasks.ok))

apply_execution_plan_guidance(execution_plan, order) ==
    guidance_of(find_knowledge_synthesizer(Get(execution_plan, "agent_plans", <<>>)),
                guidance_tasks(execution_plan), order)

(***************************************************************************)
(* InitialResearchNode.planner_agent and generate_toc.  The generation     *)
(* service is an input of a call: it raises, or it returns a text.         *)
(***************************************************************************)
\* variant: the topic of the fallbacks is personalised with the user's name
logged_topic_with_user(ctx) ==
    IF DOMAIN ctx = {} THEN T("Unknown Topic")
    ELSE S(Str(ctx.topic_context) \o <<" for ", Get(ctx.user_profile, "name", "User")>>)

\* context_assembler.raw_context.get("topic_context", "Unknown Topic")
logged_topic(ctx) == Get(ctx, "topic_context", T("Unknown Topic"))

\* llm.invoke(prompt) followed by the extraction of the content
Invoke(llm) == IF Raised(llm) THEN llm ELSE Ok(llm.ok)

\* ', '.join(activated_agents) of the plan summary that is printed
print_plan_summary(agent_plans) ==
    IF \E i \in 1..Len(agent_plans) :
           /\ Truthy(Get(agent_plans[i].dict, "activation", B(FALSE)))
           /\ ~IsStr(Get(agent_plans[i].dict, "child_agent_name", T("unknown")))
    THEN Raise("TypeError")
    ELSE Ok(None)

\* lines 129-162: the plan is stamped, summarised and returned
planner_agent_return(ctx, parsed, stamp) ==
    IF Raised(parsed) THEN [calls |-> 1, result |-> parsed]
    ELSE IF Raised(print_plan_summary(parsed.ok.agent_plans))
    THEN [calls |-> 1, result |-> print_plan_summary(parsed.ok.agent_plans)]
    ELSE [calls |-> 1,
          result |-> Ok([execution_plan |->
                            [plan_id |-> parsed.ok.plan_id,
                             agent_plans |-> parsed.ok.agent_plans,
                             created_at |-> stamp.now,
                             learning_topic |-> logged_topic(ctx)],
                         planning_success |-> TRUE])]

\* lines 116-127: the service is called with the prompt and its text parsed
planner_agent_invoke(ctx, populated_prompt, llm, stamp) ==
    IF Raised(populated_prompt) THEN [calls |-> 0, result |-> populated_prompt]
    ELSE IF Raised(Invoke(llm)) THEN [calls |-> 1, result |-> Invoke(llm)]
    ELSE planner_agent_return(ctx, parse_and_validate_execution_plan(Invoke(llm).ok, stamp),
                              stamp)

\* the body of the try block of planner_agent: the number of calls of the
\* generation service and the outcome
planner_agent_try(ctx, llm, stamp) ==
    IF DOMAIN ctx = {} THEN [calls |-> 0, result |-> Raise("RuntimeError")]
    ELSE planner_agent_invoke(ctx, get_populated_prompt(ctx, "strategic_planner"), llm, stamp)

\* variant: the handler lets the failure through
planner_agent_reraise(ctx, exception, stamp) == Raise(exception)

\* except Exception: every failure of the body becomes the fallback plan
planner_agent_except(ctx, exception, stamp) ==
    Ok(create_fallback_execution_plan(logged_topic(ctx), stamp))

\* try ... except: a failure of the body goes to the handler
planner_agent_caught(ctx, body, stamp) ==
    IF Raised(body.result)
    THEN [calls |-> body.calls, result |-> planner_agent_except(ctx, body.result.exc, stamp)]
    ELSE body

planner_agent(ctx, llm, stamp) ==
    planner_agent_caught(ctx, planner_agent_try(ctx, llm, stamp), stamp)

\* bool(execution_plan)
PlanGiven(execution_plan) == execution_plan # None /\ DOMAIN execution_plan # {}

\* variant: the guidance is appended only when it has more than one line
with_guidance_if_detailed(base_prompt, plan_guidance) ==
    IF Len(plan_guidance) > 1
    THEN [template |-> base_prompt.template, args |-> base_prompt.args,
          strategic_guidance |-> plan_guidance]
    ELSE base_prompt

\* lines 202-204: the guidance, when there is any, is appended to the prompt
with_guidance(base_prompt, plan_guidance) ==
    IF plan_guidance # <<>>
    THEN [template |-> base_prompt.template, args |-> base_prompt.args,
          strategic_guidance |-> plan_guidance]
    ELSE base_prompt

\* lines 207-223: the service is called with the prompt and its text parsed
generate_toc_parsed(populated_prompt, book_structure) ==
    IF Raised(book_structure)
    THEN [calls |-> 1, prompt |-> populated_prompt, result |-> book_structure]
    ELSE [calls |-> 1, prompt |-> populated_prompt,
          result |-> Ok([book_structure |-> book_structure.ok])]

generate_toc_invoke(populated_prompt, llm) ==
    IF Raised(Invoke(llm))
    THEN [calls |-> 1, prompt |-> populated_prompt, result |-> Invoke(llm)]
    ELSE generate_toc_parsed(populated_prompt, parse_and_validate_response(Invoke(llm).ok))

\* lines 191-204: the prompt, and the guidance of the plan when one is given
generate_toc_prompted(base_prompt, plan_guidance, llm) ==
    IF Raised(base_prompt) THEN [calls |-> 0, prompt |-> None, result |-> base_prompt]
    ELSE IF Raised(plan_guidance) THEN [calls |-> 0, prompt |-> None, result |-> plan_guidance]
    ELSE generate_toc_invoke(with_guidance(base_prompt.ok, plan_guidance.ok), llm)

\* the body of the try block of generate_toc: the number of calls of the
\* generation service, the prompt sent and the outcome
generate_toc_try(ctx, execution_plan, llm, order) ==
    generate_toc_prompted(get_populated_prompt(ctx, "knowledge_synthesizer"),
                          IF PlanGiven(execution_plan)
                          THEN apply_execution_plan_guidance(execution_plan, order)
                          ELSE Ok(<<>>),
                          llm)

\* variant: the handler lets the failure through
generate_toc_reraise(ctx, exception) == Raise(exception)

\* except Exception: every failure of the body becomes the fallback structure
generate_toc_except(ctx, exception) ==
    Ok(create_fallback_response(logged_topic(ctx)))

\* try ... except: a failure of the body goes to the handler
generate_toc_caught(ctx, body) ==
    IF Raised(body.result)
    THEN [calls |-> body.calls, prompt |-> body.prompt,
          result |-> generate_toc_except(ctx, body.result.exc)]
    ELSE body

generate_toc(ctx, execution_plan, llm, order) ==
    generate_toc_caught(ctx, generate_toc_try(ctx, execution_plan, llm, order))

(***************************************************************************)
(* Inputs of the calls                                                     *)
(***************************************************************************)
Bare(doc) == <<doc>>
Array(body) == <<LBRACKET, body, RBRACKET>>
FencedJson(text) == <<FENCE, JSONTAG, WS>> \o text \o <<WS, FENCE>>
Fenced(text) == <<FENCE, WS>> \o text \o <<WS, FENCE>>
Padded(text) == <<WS>> \o text \o <<WS>>
Commented(text) == <<PROSE, WS>> \o text \o <<WS, PROSE>>
Wrapped(text) == <<OPEN_WRAP>> \o text \o <<CLOSE_WRAP>>

ServiceError == Raise("APIConnectionError")

\* what the planning service may do: raise, or return one of these texts
PlanningTexts ==
    {Array(body) : body \in ArrayBodyNames}
    \cup {FencedJson(Array("<ks+ig>")), Fenced(Array("<ks+ig>")), Padded(Array("<ks+ig>")),
          Commented(Array("<ks+ig>")), Wrapped(Array("<ks+ig>")),
          <<PROSE>>, <<>>, Bare("<object>"), <<LBRACKET, RBRACKET>>}

PlanningBehaviours == {ServiceError} \cup {Ok(t) : t \in PlanningTexts}

\* what the synthesis service may do: raise, or return one of these texts
SynthesisTexts ==
    {Bare(d) : d \in ObjectDocNames}
    \cup {FencedJson(Bare(d)) : d \in {"<book 1>", "<book incomplete chapter>"}}
    \cup {Fenced(Bare("<book 1>")), Padded(Bare("<book 1>")), Commented(Bare("<book 1>")),
          <<PROSE>>, <<>>, Array("<ks+ig>")}

SynthesisBehaviours == {ServiceError} \cup {Ok(t) : t \in SynthesisTexts}

\* the few behaviours tried where the whole pipeline is explored
SomePlanningBehaviours ==
    {ServiceError, Ok(<<PROSE>>), Ok(Array("<ks+ig>")), Ok(FencedJson(Array("<ks+ig>"))),
     Ok(Array("<ks off>"))}

SomeSynthesisBehaviours ==
    {ServiceError, Ok(<<PROSE>>), Ok(Bare("<book 1>")), Ok(FencedJson(Bare("<book 1>"))),
     Ok(Bare("<book incomplete chapter>"))}

ExampleStamp == CHOOSE stamp \in Stamps : stamp.uuid = "1a2b3c4d"

PlanOf(body) ==
    [plan_id |-> <<"plan_", ExampleStamp.uuid>>, agent_plans |-> ArrayBodies[body],
     created_at |-> ExampleStamp.now]

FallbackPlan(topic) == create_fallback_execution_plan(topic, ExampleStamp).execution_plan

\* the execution_plan arguments of generate_toc: absent, empty, a fallback
\* plan, and plans with and without a knowledge_synthesizer entry
PlanArguments ==
    {None, EmptyDict, FallbackPlan(T("AI"))}
    \cup {PlanOf(body) : body \in {"<ks+ig>", "<ks no tasks>", "<ig only>", "<text element>"}}

SomePlanArguments == {None, EmptyDict, FallbackPlan(T("AI")), PlanOf("<ks+ig>")}

(***************************************************************************)
(* State: the assembler's raw_context, and the last call with its inputs   *)
(* and outcome (last); prev remembers an earlier run for comparisons       *)
(* between runs.                                                           *)
(***************************************************************************)
NoRun == [op |-> "none"]

Init ==
    /\ raw_context = EmptyDict
    /\ last = [op |-> "__init__"]
    /\ prev = NoRun

\* ContextAssembler(): a new assembler, with empty raw_context
Construct ==
    /\ raw_context' = EmptyDict
    /\ last' = [op |-> "__init__"]
    /\ UNCHANGED prev

AssembleContextStep(profiles, intents, books, resources) ==
    \E user_profile \in profiles, intent_result \in intents,
       existing_books \in books, user_resources \in resources :
        LET ctx == assemble_context(user_profile, intent_result, existing_books, user_resources)
        IN /\ raw_context' = ctx
           /\ last' = [op |-> "assemble_context",
                       user_profile |-> user_profile, intent_result |-> intent_result,
                       existing_books |-> existing_books, user_resources |-> user_resources,
                       result |-> Ok(ctx)]
           /\ UNCHANGED prev

GetPopulatedPrompt ==
    \E node_name \in NodeNames :
        /\ last' = [op |-> "get_populated_prompt", node_name |-> node_name,
                    result |-> get_populated_prompt(raw_context, node_name)]
        /\ UNCHANGED <<raw_context, prev>>

\* a later run may be compared with the run that just ended
Remember(remember) ==
    IF remember /\ last.op \in {"planner_agent", "generate_toc"}
    THEN prev' \in {prev, [op |-> last.op, raw_context |-> raw_context, output |-> last.output]}
    ELSE UNCHANGED prev

\* what is recorded of a call of planner_agent
PlannerAgentCall(llm, run) ==
    [op |-> "planner_agent", llm |-> llm, calls |-> run.calls, result |-> run.result,
     output |-> IF IsOk(run.result) THEN run.result.ok.execution_plan.agent_plans ELSE <<>>]

PlannerAgentStep(behaviours, remember) ==
    \E llm \in behaviours, stamp \in Stamps :
        /\ last' = PlannerAgentCall(llm, planner_agent(raw_context, llm, stamp))
        /\ Remember(remember)
        /\ UNCHANGED raw_context

\* variant: the guidance derivation marks the plan it was given
plan_after_guidance_marked(execution_plan) ==
    [k \in DOMAIN execution_plan \cup {"guidance_applied"} |->
        IF k = "guidance_applied" THEN TRUE ELSE execution_plan[k]]

\* the execution plan object after generate_toc: the plan is only read, by
\* bool(execution_plan), .get and iteration
plan_after_guidance(execution_plan) == execution_plan

\* what is recorded of a call of generate_toc
GenerateTocCall(llm, execution_plan, run) ==
    [op |-> "generate_toc", llm |-> llm, execution_plan |-> execution_plan,
     plan_after |-> plan_after_guidance(execution_plan),
     calls |-> run.calls, prompt |-> run.prompt, result |-> run.result,
     output |-> IF IsOk(run.result) THEN <<run.result.ok.book_structure>> ELSE <<>>]

GenerateTocStep(behaviours, plans, remember) ==
    \E llm \in behaviours, execution_plan \in plans :
      \E order \in Orderings(IF PlanGiven(execution_plan)
                             THEN plan_focus_areas(execution_plan) ELSE {}) :
        /\ last' = GenerateTocCall(llm, execution_plan,
                                   generate_toc(raw_context, execution_plan, llm, order))
        /\ Remember(remember)
        /\ UNCHANGED raw_context

(***************************************************************************)
(* Spec: the assembler and the two agents, every argument combination of   *)
(* assemble_context, a few behaviours of the generation service            *)
(***************************************************************************)
AssembleContext == AssembleContextStep(UserProfiles, IntentResults, ExistingBooks, UserResources)
PlannerAgent == PlannerAgentStep(SomePlanningBehaviours, FALSE)
GenerateToc == GenerateTocStep(SomeSynthesisBehaviours, SomePlanArguments, FALSE)

Next == Construct \/ AssembleContext \/ GetPopulatedPrompt \/ PlannerAgent \/ GenerateToc

Spec == Init /\ [][Next]_vars

(***************************************************************************)
(* SpecResponses: the two agents under every behaviour of the generation   *)
(* service and every plan argument, on a few contexts                      *)
(***************************************************************************)
SomeProfiles == {None, get_hardcoded_sonu_persona, RichPersona(<<>>, SonuExpertise)}
SomeIntents == {None, [intent |-> "learn_topic", topic |-> T("AI")]}

AssembleSomeContext == AssembleContextStep(SomeProfiles, SomeIntents, {None}, {None})
PlannerAgentAnyResponse == PlannerAgentStep(PlanningBehaviours, FALSE)
GenerateTocAnyResponse == GenerateTocStep(SynthesisBehaviours, PlanArguments, FALSE)

NextResponses ==
    Construct \/ AssembleSomeContext \/ PlannerAgentAnyResponse \/ GenerateTocAnyResponse

SpecResponses == Init /\ [][NextResponses]_vars

(***************************************************************************)
(* SpecFailing: runs in which the generation service raises on every call, *)
(* an earlier run being remembered                                         *)
(***************************************************************************)
FailingProfiles == {None, get_hardcoded_sonu_persona}
FailingIntents == {None} \cup {[intent |-> "learn_topic", topic |-> T(t)] : t \in Topics}
FailingBooks == {None, L(<<Book(1)>>)}

AssembleFailingContext ==
    AssembleContextStep(FailingProfiles, FailingIntents, FailingBooks, UserResources)
PlannerAgentFailing == PlannerAgentStep({ServiceError}, TRUE)
GenerateTocFailing == GenerateTocStep({ServiceError}, SomePlanArguments, TRUE)

NextFailing ==
    Construct \/ AssembleFailingContext \/ PlannerAgentFailing \/ GenerateTocFailing

SpecFailing == Init /\ [][NextFailing]_vars

(***************************************************************************)
(* SpecParsers: the plan parser and the guidance derivation of             *)
(* InitialResearchNode, called on their own with every response text and   *)
(* with plans of every task mix                                            *)
(***************************************************************************)
\* the longest research plan of the plans the guidance is derived from
MaxTasks == 2

TaskSetup == Task(T("Basic setup"), T("critical"), T("V"), S(<<>>))

SampleTasks == {TaskCritical, TaskHigh, TaskMedium, TaskLow, TaskSetup}

ResearchPlans == UNION {[1..n -> SampleTasks] : n \in 0..MaxTasks}

\* the longest research plan of the plans the quality standard is derived from
MaxPlanTasks == 5

\* the longer research plans, of two of the sample tasks
LongResearchPlans ==
    UNION {[1..n -> {TaskCritical, TaskMedium}] : n \in (MaxTasks + 1)..MaxPlanTasks}

PlanWith(agent_plans) ==
    [plan_id |-> <<"plan_", ExampleStamp.uuid>>, agent_plans |-> agent_plans,
     created_at |-> ExampleStamp.now]

\* the execution_plan arguments of the guidance derivation: the plans given to
\* generate_toc, and plans whose knowledge_synthesizer entry carries each
\* research plan, as the first or as the second entry
GuidancePlans ==
    (PlanArguments \ {None})
    \cup {PlanWith(<<AgentPlan(KS, B(TRUE), L(research_plan)),
                     AgentPlan(IG, B(FALSE), L(<<TaskCritical>>))>>) :
             research_plan \in ResearchPlans \cup LongResearchPlans}
    \cup {PlanWith(<<AgentPlan(IG, B(TRUE), L(<<TaskHigh>>)),
                     AgentPlan(KS, B(TRUE), L(research_plan))>>) :
             research_plan \in ResearchPlans}

\* the response texts the plan parser is given: every array, bare and in each
\* wrapping, and the texts that carry no array
PlanResponses ==
    PlanningTexts
    \cup {FencedJson(Array(body)) : body \in ArrayBodyNames}
    \cup {Commented(Array(body)) : body \in ArrayBodyNames}
    \cup {Wrapped(Array(body)) : body \in ArrayBodyNames}
    \cup {Commented(FencedJson(Array("<ks+ig>"))), FencedJson(Commented(Array("<ks+ig>"))),
          <<LBRACKET>>, <<RBRACKET, LBRACKET>>, FencedJson(Bare("<book 1>"))}

ParseExecutionPlanStep ==
    \E raw_response \in PlanResponses, stamp \in Stamps :
        /\ last' = [op |-> "_parse_and_validate_execution_plan",
                    raw_response |-> raw_response,
                    result |-> parse_and_validate_execution_plan(raw_response, stamp)]
        /\ UNCHANGED <<raw_context, prev>>

ApplyGuidanceStep ==
    \E execution_plan \in GuidancePlans :
      \E order \in Orderings(plan_focus_areas(execution_plan)) :
        /\ last' = [op |-> "_apply_execution_plan_guidance",
                    execution_plan |-> execution_plan,
                    result |-> apply_execution_plan_guidance(execution_plan, order)]
        /\ UNCHANGED <<raw_context, prev>>

NextParsers == ParseExecutionPlanStep \/ ApplyGuidanceStep

SpecParsers == Init /\ [][NextParsers]_vars

(***************************************************************************)
(* IntentClassifier.classify.  The three chains are inputs of a call: each *)
(* raises, or returns a text.  A confidence is kept in hundredths.         *)
(***************************************************************************)
\* intent_str.strip().upper() on the texts the classification chain returns
StripUpper(intent_str) ==
    CASE intent_str = " learn_topic " -> "LEARN_TOPIC"
      [] intent_str = "Study" -> "STUDY"
      [] intent_str = "summarize" -> "SUMMARIZE"
      [] OTHER -> intent_str

intent_mapping ==
    [s \in {"LEARN_TOPIC", "LEARN", "STUDY", "TEACH", "CREATE", "GUIDE"} |-> "LEARN_TOPIC"]
    @@ [s \in {"ADD_KNOWLEDGE", "ADD", "SAVE", "UPDATE", "INCLUDE"} |-> "ADD_KNOWLEDGE"]
    @@ [s \in {"GENERATE_SUMMARY", "SUMMARY", "SUMMARIZE"} |-> "GENERATE_SUMMARY"]
    @@ [s \in {"UPDATE_PROFILE", "PROFILE", "PREFERENCES", "SETTINGS"} |-> "UPDATE_PROFILE"]
    @@ [s \in {"GENERAL", "CHAT", "CONVERSATION"} |-> "GENERAL"]

parse_intent_type(intent_str) ==
    IF StripUpper(intent_str) \in DOMAIN intent_mapping
    THEN intent_mapping[StripUpper(intent_str)]
    ELSE "UNKNOWN"

\* a confidence text with the numbers re.findall finds in it, in hundredths:
\* the first one is used, limited to 0..1, and 0.5 stands in when there is none
parse_confidence(confidence_str) ==
    IF confidence_str.numbers = <<>> THEN 50
    ELSE IF confidence_str.numbers[1] < 0 THEN 0
    ELSE IF confidence_str.numbers[1] > 100 THEN 100
    ELSE confidence_str.numbers[1]

\* lines 145-160: the classification that is returned
classify_result(user_input, intent_str, confidence_str, topic) ==
    Ok([intent |-> parse_intent_type(intent_str),
        confidence |-> parse_confidence(confidence_str),
        topic |-> topic,
        content |-> IF parse_intent_type(intent_str) = "ADD_KNOWLEDGE"
                    THEN T(user_input) ELSE None,
        metadata |-> [model_used |-> "gpt-4o-mini", raw_intent |-> intent_str,
                      raw_confidence |-> confidence_str.text]])

\* lines 137-143: the topic chain is called for two intent types only
classify_topic(user_input, chains) ==
    IF parse_intent_type(chains.classification.ok) \in {"LEARN_TOPIC", "ADD_KNOWLEDGE"}
    THEN [calls |-> <<"classification", "confidence", "topic">>,
          result |-> IF Raised(chains.topic) THEN chains.topic
                     ELSE classify_result(user_input, chains.classification.ok,
                                          chains.confidence.ok, chains.topic.ok)]
    ELSE [calls |-> <<"classification", "confidence">>,
          result |-> classify_result(user_input, chains.classification.ok,
                                     chains.confidence.ok, None)]

\* the body of the try block of classify: the chains called, and the outcome
classify_try(user_input, chains) ==
    IF Raised(chains.classification)
    THEN [calls |-> <<"classification">>, result |-> chains.classification]
    ELSE IF Raised(chains.confidence)
    THEN [calls |-> <<"classification", "confidence">>, result |-> chains.confidence]
    ELSE classify_topic(user_input, chains)

\* variant: the handler lets the failure through
classify_reraise(exception) == Raise(exception)

\* except Exception: the unknown intent, with the error in the metadata
classify_except(exception) ==
    Ok([intent |-> "UNKNOWN", confidence |-> 0, topic |-> None, content |-> None,
        metadata |-> [error |-> exception]])

classify_caught(body) ==
    IF Raised(body.result)
    THEN [calls |-> body.calls, result |-> classify_except(body.result.exc)]
    ELSE body

classify(user_input, chains) == classify_caught(classify_try(user_input, chains))

(***************************************************************************)
(* main.py: the nodes of the graph and process_user_input.  The graph      *)
(* state is a record; a node returns the state with some keys replaced.    *)
(***************************************************************************)
\* {**state, key: value}
Put(state, key, value) ==
    [k \in DOMAIN state \cup {key} |-> IF k = key THEN value ELSE state[k]]

\* a dict of the state that is neither None nor empty
Present(v) == v # None /\ DOMAIN v # {}

initial_state(user_input, user_profile) ==
    [messages |-> <<user_input>>,
     user_profile |-> user_profile,
     current_request |-> None,
     generated_book |-> None,
     current_intent |-> None,
     current_topic |-> None,
     learning_context |-> EmptyDict,
     session_id |-> None,
     timestamp |-> None,
     context |-> None,
     execution_plan |-> None,
     book_structure |-> None,
     user_feedback |-> None,
     book_content |-> None,
     toc |-> None,
     summaries |-> None]

load_user_context(user_id) ==
    [user_id |-> user_id, name |-> None, learning_style |-> "comprehensive",
     content_preferences |-> [format |-> "markdown", depth |-> "comprehensive"]]

\* StateManager.manage_state before any intent is known: the profile is kept,
\* or loaded when it is empty; None.get(...) fails and the handler records it
manage_state(state, now) ==
    IF state.user_profile = None
    THEN Put(Put(state, "timestamp", now), "error", "AttributeError")
    ELSE Put(Put(state, "user_profile",
                 IF DOMAIN state.user_profile = {} THEN load_user_context("<uuid4>")
                 ELSE state.user_profile),
             "timestamp", now)

\* IntentClassifier.classify_with_state
classified_state(state, classification, now) ==
    IF Truthy(classification.topic)
    THEN Put(Put(Put(state, "current_intent", classification), "timestamp", now),
             "current_topic", classification.topic)
    ELSE Put(Put(state, "current_intent", classification), "timestamp", now)

\* an exception of classify is handled as classify itself handles one
classify_with_state(state, chains, now) ==
    IF state.messages = <<>> THEN state
    ELSE IF Raised(classify(state.messages[Len(state.messages)], chains).result)
    THEN Put(Put(state, "current_intent",
                 classify_except(classify(state.messages[Len(state.messages)],
                                          chains).result.exc).ok),
             "timestamp", now)
    ELSE classified_state(state, classify(state.messages[Len(state.messages)], chains).result.ok,
                          now)

context_assembler_node(state) ==
    Put(state, "context", assemble_context(state.user_profile, state.current_intent, None, None))

\* variant: a plan is handed on only when the planning succeeded
handed_plan_if_planned(planning_result) ==
    IF planning_result.planning_success THEN planning_result.execution_plan ELSE None

\* execution_plan = planning_result["execution_plan"]
handed_plan(planning_result) == planning_result.execution_plan

\* the order list(set(focus_areas)) gives the areas of a plan, taken from an
\* order of all areas
OrderBy(preference, areas) == SelectSeq(preference, LAMBDA area : area \in areas)

initial_research_node_synthesized(state, execution_plan, synthesis_result) ==
    IF Raised(synthesis_result) THEN synthesis_result
    ELSE Ok(Put(Put(state, "execution_plan", execution_plan),
                "book_structure", synthesis_result.ok.book_structure))

initial_research_node_planned(state, execution_plan, synthesis_llm, preference) ==
    initial_research_node_synthesized(state, execution_plan,
        generate_toc(state.context, execution_plan, synthesis_llm,
                     OrderBy(preference, IF PlanGiven(execution_plan)
                                         THEN plan_focus_areas(execution_plan) ELSE {})).result)

initial_research_node_planning(state, planning_result, synthesis_llm, preference) ==
    IF Raised(planning_result) THEN planning_result
    ELSE initial_research_node_planned(state, handed_plan(planning_result.ok),
                                       synthesis_llm, preference)

\* variant: the plan and the structure of the state are cleared with the error
node_without_context_cleared(state) ==
    Ok(Put(Put(Put(state, "error", "Assembled context not available"),
               "execution_plan", None), "book_structure", None))

\* lines 113-115: the state is returned with an error entry
node_without_context(state) == Ok(Put(state, "error", "Assembled context not available"))

initial_research_node(state, planning_llm, synthesis_llm, stamp, preference) ==
    IF ~Present(state.context)
    THEN node_without_context(state)
    ELSE initial_research_node_planning(state,
             planner_agent(state.context, planning_llm, stamp).result,
             synthesis_llm, preference)

\* UserCollabInterface.present_and_collect_feedback: the structure is shown
\* and returned as it is; a structure that cannot be shown is a handled error
present_and_collect_feedback(book_structure, user_profile) ==
    IF /\ REQUIRED_BOOK_FIELDS \subseteq DOMAIN book_structure
       /\ \A i \in 1..Len(book_structure.chapters) :
              REQUIRED_CHAPTER_FIELDS \subseteq DOMAIN book_structure.chapters[i]
    THEN [approved |-> TRUE, updated_book_structure |-> book_structure,
          user_feedback |-> "simulated feedback",
          updated_toc |-> [i \in 1..Len(book_structure.chapters) |->
                              [title |-> book_structure.chapters[i].title]]]
    ELSE [approved |-> FALSE, updated_book_structure |-> book_structure,
          user_feedback |-> "Error collecting feedback", updated_toc |-> <<>>]

feedback_state(state, feedback_result) ==
    Put(Put(Put(state, "book_structure", feedback_result.updated_book_structure),
            "user_feedback", T(feedback_result.user_feedback)),
        "toc", L(feedback_result.updated_toc))

\* without a book structure the legacy method enumerates state["toc"], None
user_collab_interface_node(state) ==
    IF Present(state.book_structure)
    THEN Ok(feedback_state(state,
                present_and_collect_feedback(state.book_structure, state.user_profile)))
    ELSE Raise("TypeError")

\* DummyDeepResearchNode.generate_content(self, toc, summaries, context),
\* called with the positional arguments given
generate_content(arguments) ==
    IF Len(arguments) # 3 THEN Raise("TypeError")
    ELSE Ok([book_content |-> "# Book Draft"])

\* generate_content is called with two arguments; generate_content_legacy is
\* not a method of DummyDeepResearchNode
dummy_deep_research_node(state) ==
    IF Present(state.book_structure)
    THEN (IF Raised(generate_content(<<state.book_structure, state.context>>))
          THEN generate_content(<<state.book_structure, state.context>>)
          ELSE Ok(Put(state, "book_content",
                      T(generate_content(<<state.book_structure, state.context>>).ok.book_content))))
    ELSE Raise("AttributeError")

\* an edge of the graph: the next node runs on the state the node before it
\* returned; an exception ends the run
research_edge(state, planning_llm, synthesis_llm, stamp, preference) ==
    initial_research_node(context_assembler_node(state), planning_llm, synthesis_llm,
                          stamp, preference)

collab_edge(run) == IF Raised(run) THEN run ELSE user_collab_interface_node(run.ok)

dummy_edge(run) == IF Raised(run) THEN run ELSE dummy_deep_research_node(run.ok)

\* self.graph.invoke(initial_state, config): state_manager, intent_classifier,
\* context_assembler, initial_research_node, user_collab_interface,
\* dummy_deep_research_node
graph_invoke(state, chains, planning_llm, synthesis_llm, stamp, preference) ==
    dummy_edge(collab_edge(
        research_edge(classify_with_state(manage_state(state, stamp.now), chains, stamp.now),
                      planning_llm, synthesis_llm, stamp, preference)))

process_user_input_return(user_input, result) ==
    IF Raised(result)
    THEN Ok([success |-> FALSE, error |-> result.exc, input |-> user_input])
    ELSE Ok([success |-> TRUE, input |-> user_input,
             intent |-> result.ok.current_intent,
             topic |-> result.ok.current_topic,
             execution_plan |-> result.ok.execution_plan,
             book_structure |-> result.ok.book_structure,
             user_feedback |-> result.ok.user_feedback,
             book_content |-> result.ok.book_content,
             full_state |-> result.ok])

process_user_input(user_input, user_profile, chains, planning_llm, synthesis_llm, stamp, preference) ==
    process_user_input_return(user_input,
        graph_invoke(initial_state(user_input, user_profile), chains, planning_llm,
                     synthesis_llm, stamp, preference))

(***************************************************************************)
(* SpecPipeline: the classifier, the research node of the graph in its two *)
(* phases, and whole requests                                              *)
(***************************************************************************)
UserInputs == {"I want to learn AI", "Remember that evals matter"}

ConfidenceTexts ==
    {[text |-> "0.92", numbers |-> <<92>>],
     [text |-> "Confidence: 1.5 out of 1", numbers |-> <<150, 100>>],
     [text |-> "-0.3", numbers |-> <<-30>>],
     [text |-> "high", numbers |-> <<>>]}

\* what the three chains of the classifier may do
ChainBehaviours ==
    [classification : {ServiceError} \cup
                      {Ok(t) : t \in {"LEARN_TOPIC", " learn_topic ", "ADD", "summarize",
                                      "GENERAL", "I am not sure"}},
     confidence : {ServiceError} \cup {Ok(c) : c \in ConfidenceTexts},
     topic : {ServiceError} \cup {Ok(T(t)) : t \in Topics}]

SomeChainBehaviours ==
    [classification : {ServiceError, Ok("LEARN_TOPIC"), Ok("GENERAL")},
     confidence : {Ok([text |-> "0.92", numbers |-> <<92>>])},
     topic : {ServiceError, Ok(T("AI"))}]

\* the behaviours tried on whole requests
RequestChains ==
    [classification : {Ok("LEARN_TOPIC")},
     confidence : {Ok([text |-> "0.92", numbers |-> <<92>>])},
     topic : {ServiceError, Ok(T("AI"))}]

RequestPlanning == {ServiceError, Ok(Array("<ks+ig>"))}

RequestSynthesis == {ServiceError, Ok(Bare("<book 1>"))}

SomePreferences ==
    {<<"fundamentals", "practical_applications", "advanced_concepts">>,
     <<"advanced_concepts", "practical_applications", "fundamentals">>}

\* the profile process_user_input starts from
Personas == {get_hardcoded_sonu_persona, RichPersona(<<>>, SonuExpertise)}

FocusAreas == {"fundamentals", "practical_applications", "advanced_concepts"}

\* the states the research node is given: after the context node, for each
\* profile and classification, and without a context
NodeStates ==
    {context_assembler_node(
         classify_with_state(initial_state(user_input, user_profile), chains,
                             ExampleStamp.now)) :
       user_input \in {"I want to learn AI"},
       user_profile \in Personas \cup {None},
       chains \in RequestChains}
    \cup {initial_state("I want to learn AI", user_profile) : user_profile \in Personas}
    \cup {Put(Put(Put(initial_state("I want to learn AI", get_hardcoded_sonu_persona),
                     "context", context),
                 "execution_plan", FallbackPlan(T("AI"))),
             "book_structure", create_fallback_response(T("AI")).book_structure) :
            context \in {None, EmptyDict}}

\* the research node is between its two phases
NodeRunning == last.op = "_initial_research_node" /\ last.pc = "planned"

ClassifyStep ==
    /\ ~NodeRunning
    /\ \E user_input \in UserInputs, chains \in ChainBehaviours :
        /\ last' = [op |-> "classify", user_input |-> user_input, chains |-> chains,
                    calls |-> classify(user_input, chains).calls,
                    result |-> classify(user_input, chains).result]
        /\ UNCHANGED <<raw_context, prev>>

\* phase 1 of _initial_research_node: the context check and planner_agent
InitialResearchPlanStep ==
    /\ ~NodeRunning
    /\ \E state \in NodeStates, llm \in SomePlanningBehaviours, stamp \in {ExampleStamp} :
        /\ last' = IF ~Present(state.context)
                   THEN [op |-> "_initial_research_node", pc |-> "returned", state |-> state,
                         calls |-> 0, result |-> node_without_context(state)]
                   ELSE [op |-> "_initial_research_node", pc |-> "planned", state |-> state,
                         calls |-> planner_agent(state.context, llm, stamp).calls,
                         planning |-> planner_agent(state.context, llm, stamp).result]
        /\ UNCHANGED <<raw_context, prev>>

\* phase 2 of _initial_research_node: generate_toc with the plan, and the
\* state that is returned
InitialResearchSynthesisStep ==
    /\ NodeRunning
    /\ IsOk(last.planning)
    /\ \E llm \in SomeSynthesisBehaviours, preference \in Orderings(FocusAreas) :
        /\ last' = [op |-> "_initial_research_node", pc |-> "synthesized",
                    state |-> last.state, planning |-> last.planning,
                    llm |-> llm,
                    execution_plan |-> handed_plan(last.planning.ok),
                    result |-> initial_research_node_planned(
                                   last.state, handed_plan(last.planning.ok), llm, preference)]
        /\ UNCHANGED <<raw_context, prev>>

\* a request: the agent's assembler holds the context the context node
\* assembled, whatever the later nodes do
ProcessUserInputStep ==
    /\ ~NodeRunning
    /\ \E user_input \in {"I want to learn AI"}, user_profile \in Personas,
          chains \in RequestChains, planning_llm \in RequestPlanning,
          synthesis_llm \in RequestSynthesis, stamp \in {ExampleStamp},
          preference \in SomePreferences :
        /\ last' = [op |-> "process_user_input", user_input |-> user_input,
                    planning_llm |-> planning_llm, synthesis_llm |-> synthesis_llm,
                    result |-> process_user_input(user_input, user_profile, chains,
                                                  planning_llm, synthesis_llm, stamp,
                                                  preference)]
        /\ raw_context' =
               context_assembler_node(
                   classify_with_state(manage_state(initial_state(user_input, user_profile),
                                                    stamp.now),
                                       chains, stamp.now)).context
        /\ UNCHANGED prev

NextPipeline ==
    ClassifyStep \/ InitialResearchPlanStep \/ InitialResearchSynthesisStep
    \/ ProcessUserInputStep

SpecPipeline == Init /\ [][NextPipeline]_vars

(***************************************************************************)
(* Properties                                                              *)
(***************************************************************************)
Assembled == DOMAIN raw_context # {}

PlannerReturned == last.op = "planner_agent" /\ IsOk(last.result)
TocReturned == last.op = "generate_toc" /\ IsOk(last.result)

ReturnedPlan == last.result.ok.execution_plan
ReturnedBook == last.result.ok.book_structure

TasksOf(agent_plan) == agent_plan.dict.research_plan.list

PrioritiesOf(agent_plan) ==
    [i \in 1..Len(TasksOf(agent_plan)) |-> TasksOf(agent_plan)[i].dict.task_priority]

\* the shape of the fallback agent plans
FallbackShape(agent_plans) ==
    /\ Len(agent_plans) = 2
    /\ agent_plans[1].dict.child_agent_name = KS
    /\ agent_plans[1].dict.activation = B(TRUE)
    /\ PrioritiesOf(agent_plans[1]) = <<T("critical"), T("high"), T("medium")>>
    /\ agent_plans[2].dict.child_agent_name = IG
    /\ agent_plans[2].dict.activation = B(FALSE)
    /\ Len(TasksOf(agent_plans[2])) = 1

\* the texts a topic may be rendered as
TopicRenderings == {<<t>> : t \in Topics \cup {"None", "Unknown Topic"}}

\* the fallback book structure for a topic rendered as t
FallbackBook(book, t) ==
    /\ book.title = S(<<"Learning ">> \o t \o <<": A Personalized Guide">>)
    /\ Len(book.chapters) = 3
    /\ \A i \in 1..3 : book.chapters[i].chapter_number = N(i)
    /\ book.chapters[1].title = S(<<"Introduction to ">> \o t)
    /\ book.chapters[2].title = S(<<"Core Concepts in ">> \o t)
    /\ book.chapters[3].title = S(<<"Practical Applications of ">> \o t)

\* the planning service raised, or its text does not parse, or does not validate
PlanningFails(llm) ==
    Raised(llm) \/ Raised(parse_and_validate_execution_plan(llm.ok, ExampleStamp))

\* the synthesis service raised, or its text does not parse, or does not validate
SynthesisFails(llm) ==
    Raised(llm) \/ Raised(parse_and_validate_response(llm.ok))

\* C1: whatever the generation service does, the plan planner_agent returns
\* has a knowledge_synthesizer agent plan with activation true, and every
\* task of every agent plan has a priority among critical, high, medium, low.
C1_PlanValid ==
    last.op = "planner_agent" =>
        /\ IsOk(last.result)
        /\ \E i \in 1..Len(ReturnedPlan.agent_plans) :
               /\ ReturnedPlan.agent_plans[i].dict.child_agent_name = KS
               /\ ReturnedPlan.agent_plans[i].dict.activation = B(TRUE)
        /\ \A i \in 1..Len(ReturnedPlan.agent_plans) :
               \A j \in 1..Len(TasksOf(ReturnedPlan.agent_plans[i])) :
                   PrioritiesOf(ReturnedPlan.agent_plans[i])[j] \in PRIORITIES

C1_Witness ==
    /\ PlannerReturned
    /\ Assembled
    /\ last.llm = Ok(Array("<ks activation string>"))
    /\ Len(ReturnedPlan.agent_plans) = 2

\* C2: whatever the generation service does and whatever plan is passed, the
\* book structure generate_toc returns has at least one chapter and every
\* chapter carries chapter_number, title, summary, personalization_rationale.
C2_StructureValid ==
    last.op = "generate_toc" =>
        /\ IsOk(last.result)
        /\ Len(ReturnedBook.chapters) >= 1
        /\ \A i \in 1..Len(ReturnedBook.chapters) :
               REQUIRED_CHAPTER_FIELDS \subseteq DOMAIN ReturnedBook.chapters[i]

C2_Witness ==
    /\ TocReturned
    /\ last.llm = Ok(Bare("<book empty chapters>"))
    /\ last.execution_plan = PlanOf("<ks+ig>")
    /\ Len(ReturnedBook.chapters) = 3

\* C3: on an assembled context, when the planning service raises, or its text
\* is not well-formed JSON, or the parsed value fails validation,
\* planner_agent raises nothing and returns the fallback plan with
\* planning_success False.
C3_PlannerFallsBack ==
    (last.op = "planner_agent" /\ Assembled /\ PlanningFails(last.llm)) =>
        /\ IsOk(last.result)
        /\ last.result.ok.planning_success = FALSE
        /\ ReturnedPlan.plan_id[1] = "fallback_"
        /\ FallbackShape(ReturnedPlan.agent_plans)

C3_Witness ==
    /\ PlannerReturned
    /\ Assembled
    /\ last.llm = Ok(<<PROSE>>)
    /\ last.result.ok.planning_success = FALSE
    /\ FallbackShape(ReturnedPlan.agent_plans)

\* C4: when the synthesis service raises, or its text is not well-formed
\* JSON, or the parsed value fails validation, generate_toc raises nothing
\* and returns the fallback structure: 3 chapters numbered 1, 2, 3 titled
\* "Introduction to", "Core Concepts in", "Practical Applications of" the
\* topic, under the title "Learning {topic}: A Personalized Guide".
C4_TocFallsBack ==
    (last.op = "generate_toc" /\ SynthesisFails(last.llm)) =>
        /\ IsOk(last.result)
        /\ \E t \in TopicRenderings :
               /\ FallbackBook(ReturnedBook, t)
               /\ (Assembled /\ IsStr(raw_context.topic_context)) => t = raw_context.topic_context.str

C4_Witness ==
    /\ TocReturned
    /\ Assembled
    /\ raw_context.topic_context = T("AI")
    /\ last.llm = Ok(Bare("<book incomplete chapter>"))
    /\ last.calls = 1
    /\ FallbackBook(ReturnedBook, <<"AI">>)

\* the topic two runs are compared on
RunTopic(ctx) == IF DOMAIN ctx = {} THEN T("<no context>") ELSE ctx.topic_context

\* C5: when the generation service raises on every call, two runs with the
\* same topic return the same fallback agent plans (knowledge_synthesizer
\* activated with tasks critical, high, medium; intelligence_gatherer not
\* activated with one task) and the same 3-chapter structure, whatever the
\* profile, the resources and the existing knowledge.
C5_FallbackDeterminism ==
    /\ last.op = "planner_agent" => IsOk(last.result) /\ FallbackShape(last.output)
    /\ last.op = "generate_toc" => IsOk(last.result) /\ Len(last.output[1].chapters) = 3
    /\ (prev.op = last.op /\ RunTopic(prev.raw_context) = RunTopic(raw_context))
         => prev.output = last.output

C5_Witness ==
    /\ prev.op = "generate_toc"
    /\ last.op = "generate_toc"
    /\ Assembled
    /\ DOMAIN prev.raw_context # {}
    /\ prev.raw_context.topic_context = raw_context.topic_context
    /\ prev.raw_context.user_profile # raw_context.user_profile
    /\ prev.raw_context.existing_knowledge # raw_context.existing_knowledge
    /\ prev.raw_context.resource_context # raw_context.resource_context
    /\ prev.output = last.output

\* C6: on an assembled context, when the planning service returns a
\* well-formed array of agent plans that passes validation, planner_agent
\* returns planning_success True and a plan whose agent_plans are the parsed
\* array, with a plan_id and a creation timestamp.
C6_PlannerSucceeds ==
    (last.op = "planner_agent" /\ Assembled /\ ~PlanningFails(last.llm)) =>
        /\ IsOk(last.result)
        /\ last.result.ok.planning_success = TRUE
        /\ ReturnedPlan.agent_plans =
               parse_and_validate_execution_plan(last.llm.ok, ExampleStamp).ok.agent_plans
        /\ ReturnedPlan.plan_id[1] = "plan_"
        /\ "created_at" \in DOMAIN ReturnedPlan

\* C7: on an assembled context, one call of planner_agent invokes the
\* planning service exactly once, and one call of generate_toc invokes the
\* synthesis service exactly once.
C7_OneCallEach ==
    (last.op \in {"planner_agent", "generate_toc"} /\ Assembled) => last.calls = 1

\* C8: get_populated_prompt on an assembler that was never assembled fails
\* with RuntimeError for every consumer name and leaves the stored context
\* empty.
C8_NotAssembled ==
    [][(last'.op = "get_populated_prompt" /\ raw_context = EmptyDict) =>
          (last'.result = Raise("RuntimeError") /\ raw_context' = EmptyDict)]_vars

C8_Witness ==
    /\ last.op = "get_populated_prompt"
    /\ raw_context = EmptyDict
    /\ last.node_name = "quality_assurance"
    /\ last.result = Raise("RuntimeError")

\* C9 as stated: after assemble_context, get_populated_prompt fails with
\* ValueError for every consumer name other than "strategic_planner" and
\* "knowledge_synthesizer".
C9_UnknownConsumer ==
    (last.op = "get_populated_prompt" /\ Assembled
       /\ last.node_name \notin {"strategic_planner", "knowledge_synthesizer"})
      => last.result = Raise("ValueError")

\* C9 amended: after assemble_context, get_populated_prompt fails with
\* ValueError for every consumer name other than "strategic_planner",
\* "knowledge_synthesizer" and "intelligence_gatherer".
C9_UnroutedConsumer ==
    (last.op = "get_populated_prompt" /\ Assembled
       /\ last.node_name \notin {"strategic_planner", "knowledge_synthesizer",
                                 "intelligence_gatherer"})
      => last.result = Raise("ValueError")

C9_Witness ==
    /\ last.op = "get_populated_prompt"
    /\ Assembled
    /\ last.node_name = "quality_assurance"
    /\ last.result = Raise("ValueError")

\* C10: planner_agent on an assembler that was never assembled fails with
\* the not-assembled error (RuntimeError), which reaches the caller; no plan
\* is returned.
C10_NotAssembledPropagates ==
    (last.op = "planner_agent" /\ ~Assembled) => last.result = Raise("RuntimeError")

\* C11: after assemble_context with any profile, also a rich persona whose
\* list of current goals is empty or whose expertise map is empty,
\* get_populated_prompt for "strategic_planner" and for
\* "knowledge_synthesizer" returns a prompt and raises nothing.
C11_PromptsNeverRaise ==
    (last.op = "get_populated_prompt" /\ Assembled
       /\ last.node_name \in {"strategic_planner", "knowledge_synthesizer"})
      => IsOk(last.result)

\* the keys of an assembled context
CONTEXT_KEYS ==
    {"user_profile", "topic_context", "existing_knowledge", "resource_context",
     "user_feedback", "toc_feedback"}

\* C12: assemble_context succeeds for every combination of present and absent
\* arguments, and after any sequence of calls the stored context is what the
\* last call alone produces: every field comes from that call's arguments or
\* the defaults, and nothing of an earlier call survives.
C12_LastCallAlone ==
    last.op = "assemble_context" =>
        /\ last.result = Ok(raw_context)
        /\ DOMAIN raw_context = CONTEXT_KEYS
        /\ raw_context.user_profile =
               (IF last.user_profile = None THEN MOCK_USER_PROFILE ELSE last.user_profile)
        /\ raw_context.topic_context =
               (IF last.intent_result # None /\ "topic" \in DOMAIN last.intent_result
                THEN last.intent_result.topic ELSE None)
        /\ raw_context.existing_knowledge =
               (IF last.existing_books \in {None, L(<<>>)} THEN MOCK_BOOK_SUMMARIES
                ELSE last.existing_books.list)
        /\ raw_context.resource_context =
               (IF last.user_resources \in {None, L(<<>>)} THEN MOCK_USER_RESOURCES
                ELSE last.user_resources.list)
        /\ raw_context.user_feedback = None
        /\ raw_context.toc_feedback = None

\* a call with every argument absent, after a run on a context that was
\* assembled from a persona, a topic, a book and a resource
C12_Witness ==
    /\ last.op = "assemble_context"
    /\ last.user_profile = None /\ last.intent_result = None
    /\ last.existing_books = None /\ last.user_resources = None
    /\ prev.op = "planner_agent"
    /\ DOMAIN prev.raw_context # {}
    /\ prev.raw_context.user_profile = get_hardcoded_sonu_persona
    /\ prev.raw_context.topic_context = T("AI")
    /\ prev.raw_context.existing_knowledge = <<Book(1)>>
    /\ prev.raw_context.resource_context = <<Resource>>
    /\ raw_context.user_profile = MOCK_USER_PROFILE
    /\ raw_context.existing_knowledge = MOCK_BOOK_SUMMARIES

\* get_populated_prompt("knowledge_synthesizer") returned a prompt
SynthesisPromptReturned ==
    /\ last.op = "get_populated_prompt"
    /\ last.node_name = "knowledge_synthesizer"
    /\ IsOk(last.result)

\* C13: when the context is assembled without a topic (topic None), the
\* prompt returned by get_populated_prompt("knowledge_synthesizer") is the
\* synthesis template with the text "Unknown Topic" in its topic field.
C13_UnknownTopic ==
    (SynthesisPromptReturned /\ Assembled /\ raw_context.topic_context = None) =>
        /\ last.result.ok.template = "PERSONALIZED_TOC_PROMPT"
        /\ Contains(last.result.ok.args.learning_topic, <<"Unknown Topic">>)
        /\ \A f \in DOMAIN last.result.ok.args :
               ~Contains(last.result.ok.args[f], <<"None">>)

C13_Witness ==
    /\ SynthesisPromptReturned
    /\ Assembled
    /\ raw_context.topic_context = None
    /\ raw_context.user_profile = MOCK_USER_PROFILE
    /\ last.result.ok.args.learning_topic = <<"Unknown Topic">>
    /\ Contains(last.result.ok.args.primary_goal, <<"Unknown Topic">>)

\* the bridges "{Domain} to {topic}" of the expertise entries with a
\* confidence of at least 6, in the order of the entries
RECURSIVE BridgesTo(_, _)
BridgesTo(core_expertise, topic) ==
    IF core_expertise = <<>> THEN <<>>
    ELSE (IF Head(core_expertise).confidence >= 6
          THEN << <<TitleCase(Head(core_expertise).domain), " to ">> \o topic >>
          ELSE <<>>)
         \o BridgesTo(Tail(core_expertise), topic)

\* C14: for a rich persona, the knowledge-bridges string of the synthesis
\* prompt lists "{Domain} to {topic}" for exactly the expertise entries with
\* confidence at least 6, {topic} being the learning topic of the request,
\* and it is "General knowledge to {topic}" when no entry qualifies.
C14_BridgesToTopic ==
    (SynthesisPromptReturned /\ Assembled
       /\ "knowledge_foundation" \in DOMAIN raw_context.user_profile
       /\ IsStr(raw_context.topic_context)) =>
        LET core_expertise == raw_context.user_profile.knowledge_foundation.core_expertise
            topic == raw_context.topic_context.str
            bridges == BridgesTo(core_expertise, topic)
        IN last.result.ok.args.knowledge_bridges =
               (IF bridges = <<>> THEN <<"General knowledge to ">> \o topic
                ELSE Join(", ", bridges))

\* the guidance lines that start with a heading
LinesUnder(lines, heading) == {i \in 1..Len(lines) : lines[i][1] = heading}

\* the tasks of the first knowledge_synthesizer entry of a plan
SynthesizerTasks(execution_plan) ==
    LET agent_plans == execution_plan.agent_plans
        first == CHOOSE i \in 1..Len(agent_plans) :
                     /\ agent_plans[i].dict.child_agent_name = KS
                     /\ \A j \in 1..(i - 1) : agent_plans[j].dict.child_agent_name # KS
    IN agent_plans[first].dict.research_plan.list

\* the guidance lists, under one heading, the outcome of every task of the
\* priority and of no other task; there is no such line without such a task
ListedUnder(lines, tasks, priority, heading) ==
    LET mine == {i \in 1..Len(tasks) : tasks[i].dict.task_priority = priority}
    IN IF mine = {} THEN LinesUnder(lines, heading) = {}
       ELSE /\ Cardinality(LinesUnder(lines, heading)) = 1
            /\ \A n \in LinesUnder(lines, heading) :
                 \A i \in 1..Len(tasks) :
                     Contains(lines[n], tasks[i].dict.expected_outcome.str) <=> i \in mine

\* a guidance derived from a plan with well-formed agent plans, one of them
\* the knowledge_synthesizer
GuidanceDerived ==
    /\ last.op = "_apply_execution_plan_guidance"
    /\ IsOk(last.result)
    /\ "agent_plans" \in DOMAIN last.execution_plan
    /\ \A i \in 1..Len(last.execution_plan.agent_plans) :
           agent_plan_valid(last.execution_plan.agent_plans[i])
    /\ \E i \in 1..Len(last.execution_plan.agent_plans) :
           last.execution_plan.agent_plans[i].dict.child_agent_name = KS

\* C15: for every execution plan with a knowledge_synthesizer entry, the
\* guidance has a "CRITICAL PRIORITIES" line with the expected_outcome of
\* every critical task and a "HIGH PRIORITY TASKS" line with the
\* expected_outcome of every high task; tasks of priority medium or low are
\* on neither line, and a line is absent when no task has its priority.
C15_GuidanceByPriority ==
    GuidanceDerived =>
        /\ ListedUnder(last.result.ok, SynthesizerTasks(last.execution_plan),
                       T("critical"), "**CRITICAL PRIORITIES**: ")
        /\ ListedUnder(last.result.ok, SynthesizerTasks(last.execution_plan),
                       T("high"), "**HIGH PRIORITY TASKS**: ")

C15_Witness ==
    /\ GuidanceDerived
    /\ SynthesizerTasks(last.execution_plan) = <<TaskSetup, TaskMedium>>
    /\ LinesUnder(last.result.ok, "**HIGH PRIORITY TASKS**: ") = {}
    /\ \E n \in LinesUnder(last.result.ok, "**CRITICAL PRIORITIES**: ") :
           /\ Contains(last.result.ok[n], <<"V">>)
           /\ ~Contains(last.result.ok[n], <<"Z">>)

\* a JSON value as the claim describes a valid plan: an array whose elements
\* have an agent name, an activation flag and a task list, every task with
\* the five task fields and a priority of the four levels, one element being
\* the knowledge_synthesizer with activation true
DescribedPlanArray(v) ==
    /\ IsList(v)
    /\ \A i \in 1..Len(v.list) :
           /\ IsDict(v.list[i])
           /\ {"child_agent_name", "activation", "research_plan"} \subseteq DOMAIN v.list[i].dict
           /\ IsList(v.list[i].dict.research_plan)
           /\ \A j \in 1..Len(v.list[i].dict.research_plan.list) :
                LET task == v.list[i].dict.research_plan.list[j]
                IN /\ IsDict(task)
                   /\ {"task_name", "task_status", "task_priority", "expected_outcome",
                       "user_resource_connection"} \subseteq DOMAIN task.dict
                   /\ task.dict.task_priority \in {T("critical"), T("high"), T("medium"), T("low")}
    /\ \E i \in 1..Len(v.list) :
           /\ v.list[i].dict.child_agent_name = T("knowledge_synthesizer")
           /\ v.list[i].dict.activation = B(TRUE)

\* C20: _parse_and_validate_execution_plan returns a plan exactly when the
\* response, after the code fences are stripped and the text is cut from the
\* first '[' to the last ']', is a JSON array in which every element has an
\* agent name, an activation flag and a task list, a knowledge_synthesizer
\* element exists with activation true, and every task has the five task
\* fields with a priority among critical, high, medium, low; every other
\* response raises a validation error.
C20_PlanExactlyWhenDescribed ==
    last.op = "_parse_and_validate_execution_plan" =>
        IF /\ IsOk(json_loads(clean_plan_response(last.raw_response)))
           /\ DescribedPlanArray(json_loads(clean_plan_response(last.raw_response)).ok)
        THEN /\ IsOk(last.result)
             /\ last.result.ok.agent_plans =
                    json_loads(clean_plan_response(last.raw_response)).ok.list
        ELSE last.result = Raise("ValueError")

\* the well-formed documents among the responses: title, introduction and
\* at least one chapter, every chapter with the four chapter fields
WellFormedBooks ==
    {d \in ObjectDocNames :
        /\ IsDict(ObjectDocs[d])
        /\ {"title", "introduction", "chapters"} \subseteq DOMAIN ObjectDocs[d].dict
        /\ IsList(ObjectDocs[d].dict.chapters)
        /\ ObjectDocs[d].dict.chapters.list # <<>>
        /\ \A i \in 1..Len(ObjectDocs[d].dict.chapters.list) :
               /\ IsDict(ObjectDocs[d].dict.chapters.list[i])
               /\ {"chapter_number", "title", "summary", "personalization_rationale"}
                      \subseteq DOMAIN ObjectDocs[d].dict.chapters.list[i].dict}

\* the synthesis service was called and returned the document d, bare,
\* between whitespace or in a json code fence
ServiceReturned(d) ==
    /\ last.op = "generate_toc"
    /\ last.calls = 1
    /\ last.llm \in {Ok(Bare(d)), Ok(Padded(Bare(d))), Ok(FencedJson(Bare(d)))}

\* C16: when the synthesis service returns a well-formed document with title,
\* introduction and n >= 1 chapters, each with the four chapter fields,
\* generate_toc returns a structure with that title and introduction and
\* exactly those n chapters in the order of the response; the fallback is
\* not used.
C16_WellFormedReturned ==
    \A d \in WellFormedBooks :
        ServiceReturned(d) =>
            /\ IsOk(last.result)
            /\ ReturnedBook.title = ObjectDocs[d].dict.title
            /\ ReturnedBook.introduction = ObjectDocs[d].dict.introduction
            /\ Len(ReturnedBook.chapters) = Len(ObjectDocs[d].dict.chapters.list)
            /\ \A i \in 1..Len(ReturnedBook.chapters) :
                   \A f \in {"chapter_number", "title", "summary", "personalization_rationale"} :
                       ReturnedBook.chapters[i][f] = ObjectDocs[d].dict.chapters.list[i].dict[f]
            /\ \A t \in TopicRenderings : ~FallbackBook(ReturnedBook, t)

C16_Witness ==
    /\ ServiceReturned("<book 2>")
    /\ last.llm = Ok(Bare("<book 2>"))
    /\ "<book 2>" \in WellFormedBooks
    /\ TocReturned
    /\ ReturnedBook.title = T("Generated book")
    /\ Len(ReturnedBook.chapters) = 2
    /\ ReturnedBook.chapters[2].chapter_number = N(2)

\* a chain that classify called raised
SomeCallRaised == \E i \in 1..Len(last.calls) : Raised(last.chains[last.calls[i]])

\* the exception of the call that raised: the last call made
RaisedError == last.chains[last.calls[Len(last.calls)]].exc

\* C19: when the classification call, the confidence call or the topic call
\* of classify raises, classify raises nothing and returns the intent UNKNOWN
\* with confidence 0.0, topic None, content None and metadata with the error.
C19_UnknownOnError ==
    (last.op = "classify" /\ SomeCallRaised) =>
        /\ IsOk(last.result)
        /\ last.result.ok.intent = "UNKNOWN"
        /\ last.result.ok.confidence = 0
        /\ last.result.ok.topic = None
        /\ last.result.ok.content = None
        /\ "error" \in DOMAIN last.result.ok.metadata
        /\ last.result.ok.metadata.error = RaisedError

C19_Witness ==
    /\ last.op = "classify"
    /\ last.calls = <<"classification", "confidence", "topic">>
    /\ IsOk(last.chains.classification)
    /\ IsOk(last.chains.confidence)
    /\ Raised(last.chains.topic)
    /\ IsOk(last.result)
    /\ last.result.ok.intent = "UNKNOWN"

NodePlanned == last.op = "_initial_research_node" /\ last.pc = "planned"

NodeSynthesized == last.op = "_initial_research_node" /\ last.pc = "synthesized"

\* C17: in a run of _initial_research_node with an assembled context,
\* generate_toc starts only after planner_agent has returned, it is handed
\* the plan planner_agent returned, that plan is the one stored in the state
\* beside the book structure, also when planning_success is False, and after
\* the planner has returned the synthesizer can always run.
C17_PlanThenSynthesize ==
    /\ [](NodePlanned => IsOk(last.planning) /\ ENABLED InitialResearchSynthesisStep)
    /\ [][NodeSynthesized' =>
            /\ NodePlanned
            /\ last'.state = last.state
            /\ last'.execution_plan = last.planning.ok.execution_plan
            /\ IsOk(last'.result)
            /\ last'.result.ok.execution_plan = last.planning.ok.execution_plan
            /\ Present(last'.result.ok.book_structure)]_vars

C17_Witness ==
    /\ NodeSynthesized
    /\ last.planning.ok.planning_success = FALSE
    /\ last.llm = Ok(Bare("<book 1>"))
    /\ IsOk(last.result)
    /\ last.result.ok.execution_plan = last.planning.ok.execution_plan
    /\ FallbackShape(last.result.ok.execution_plan.agent_plans)
    /\ Len(last.result.ok.book_structure.chapters) >= 1

\* C18: whatever the generation service does, failing on every call included,
\* a request run through process_user_input completes successfully and its
\* result carries a structurally valid execution plan and a structurally valid
\* book structure.
C18_RequestSucceeds ==
    last.op = "process_user_input" =>
        /\ IsOk(last.result)
        /\ last.result.ok.success = TRUE
        /\ \E i \in 1..Len(last.result.ok.execution_plan.agent_plans) :
               /\ last.result.ok.execution_plan.agent_plans[i].dict.child_agent_name = KS
               /\ last.result.ok.execution_plan.agent_plans[i].dict.activation = B(TRUE)
        /\ Len(last.result.ok.book_structure.chapters) >= 1
        /\ \A i \in 1..Len(last.result.ok.book_structure.chapters) :
               REQUIRED_CHAPTER_FIELDS \subseteq DOMAIN last.result.ok.book_structure.chapters[i]

\* the entries of an accepted plan that carry the agent name
EntriesFor(agent_plans, agent_name) ==
    {i \in 1..Len(agent_plans) : agent_plans[i].dict.child_agent_name = agent_name}

\* C21: every execution plan that _parse_and_validate_execution_plan accepts
\* has exactly one agent plan for knowledge_synthesizer, exactly one for
\* intelligence_gatherer, and none for any other agent name.
C21_OnePlanPerAgent ==
    (last.op = "_parse_and_validate_execution_plan" /\ IsOk(last.result)) =>
        /\ Cardinality(EntriesFor(last.result.ok.agent_plans, KS)) = 1
        /\ Cardinality(EntriesFor(last.result.ok.agent_plans, IG)) = 1
        /\ \A i \in 1..Len(last.result.ok.agent_plans) :
               last.result.ok.agent_plans[i].dict.child_agent_name \in {KS, IG}

\* a chapter of a parsed document lacks one of the four chapter fields
ChapterLacksField(chapter) ==
    \/ ~IsDict(chapter)
    \/ \E f \in {"chapter_number", "title", "summary", "personalization_rationale"} :
           f \notin DOMAIN chapter.dict

\* the documents among the responses that lack title, introduction or
\* chapters, or whose chapters are no list, or an empty list, or hold a
\* chapter that lacks a field
DeficientBooks ==
    {d \in ObjectDocNames :
        /\ IsDict(ObjectDocs[d])
        /\ \/ \E f \in {"title", "introduction", "chapters"} : f \notin DOMAIN ObjectDocs[d].dict
           \/ ~IsList(ObjectDocs[d].dict.chapters)
           \/ ObjectDocs[d].dict.chapters.list = <<>>
           \/ \E i \in 1..Len(ObjectDocs[d].dict.chapters.list) :
                  ChapterLacksField(ObjectDocs[d].dict.chapters.list[i])}

\* C22: when the parsed synthesis response lacks title, introduction or
\* chapters, or chapters is no list or is empty, or some chapter lacks one of
\* chapter_number, title, summary, personalization_rationale, generate_toc
\* returns the fallback structure; none of the chapters of the response is
\* returned.
C22_DeficientFallsBack ==
    \A d \in DeficientBooks :
        ServiceReturned(d) =>
            /\ IsOk(last.result)
            /\ \E t \in TopicRenderings : FallbackBook(ReturnedBook, t)
            /\ \A i \in 1..Len(ReturnedBook.chapters) :
                   ReturnedBook.chapters[i].summary # T("Summary")

C22_Witness ==
    /\ ServiceReturned("<book incomplete chapter>")
    /\ last.llm = Ok(FencedJson(Bare("<book incomplete chapter>")))
    /\ "<book incomplete chapter>" \in DeficientBooks
    /\ TocReturned
    /\ Len(ReturnedBook.chapters) = 3
    /\ ReturnedBook.chapters[1].personalization_rationale =
           T("Starting with basics to build a solid foundation")

\* C23: every book structure generate_toc returns has the chapter numbers
\* 1, 2, ..., n in list order, n being the number of its chapters.
C23_ChaptersNumbered ==
    TocReturned =>
        \A i \in 1..Len(ReturnedBook.chapters) : ReturnedBook.chapters[i].chapter_number = N(i)

\* a well-formed document was returned by the synthesis service in a markdown
\* code fence, with the language tag or without it
ServiceReturnedFenced(d) ==
    /\ last.op = "generate_toc"
    /\ last.calls = 1
    /\ last.llm \in {Ok(FencedJson(Bare(d))), Ok(Fenced(Bare(d)))}

\* C24: a synthesis response that is a valid book document in a markdown code
\* fence, with or without a language tag on the opening fence, is returned by
\* generate_toc as the generated structure and is not replaced by the
\* fallback.
C24_FencedReturned ==
    \A d \in WellFormedBooks :
        ServiceReturnedFenced(d) =>
            /\ IsOk(last.result)
            /\ ReturnedBook.title = ObjectDocs[d].dict.title
            /\ Len(ReturnedBook.chapters) = Len(ObjectDocs[d].dict.chapters.list)
            /\ \A t \in TopicRenderings : ~FallbackBook(ReturnedBook, t)

\* a fallback was returned by planner_agent or generate_toc for a context
\* that was assembled without a topic
FallbackWithoutTopic ==
    /\ Assembled
    /\ raw_context.topic_context = None
    /\ \/ PlannerReturned /\ last.result.ok.planning_success = FALSE
       \/ TocReturned /\ \E t \in TopicRenderings : FallbackBook(ReturnedBook, t)

\* C25: when the context was assembled without a topic and a fallback is
\* produced, the topic reads "Unknown Topic" in the task texts of the fallback
\* plan and in the title, the introduction and the chapter titles of the
\* fallback structure.
C25_FallbackUnknownTopic ==
    FallbackWithoutTopic =>
        /\ PlannerReturned =>
               \A j \in 1..3 :
                   /\ Contains(TasksOf(ReturnedPlan.agent_plans[1])[j].dict.task_name.str,
                               <<"Unknown Topic">>)
                   /\ Contains(TasksOf(ReturnedPlan.agent_plans[1])[j].dict.expected_outcome.str,
                               <<"Unknown Topic">>)
        /\ TocReturned =>
               /\ FallbackBook(ReturnedBook, <<"Unknown Topic">>)
               /\ Contains(ReturnedBook.introduction.str, <<"Unknown Topic">>)

\* the existing-knowledge summary of the synthesis prompt for the stored context
KnowledgeSummary ==
    populate_knowledge_synthesizer_prompt(raw_context).ok.args.rag_existing_books_summary

\* C26: when the context is assembled with no existing knowledge, the
\* argument absent or an empty list, the stored existing-knowledge list is
\* empty and the existing-knowledge summary of the synthesis prompt is "No
\* prior books found on this topic."; otherwise the summary covers at most
\* the first 3 entries.
C26_NoKnowledgeIsEmpty ==
    (last.op = "assemble_context"
     /\ IsOk(populate_knowledge_synthesizer_prompt(raw_context))) =>
        IF ~Truthy(last.existing_books)
        THEN /\ raw_context.existing_knowledge = <<>>
             /\ KnowledgeSummary = <<"No prior books found on this topic.">>
        ELSE \A n \in 4..MaxBooks : ~Contains(KnowledgeSummary, <<Book(n).title>>)

\* the guidance was derived from a plan with well-formed agent plans, one of
\* them the knowledge_synthesizer
SynthesizerPlanGiven ==
    /\ last.op = "_apply_execution_plan_guidance"
    /\ "agent_plans" \in DOMAIN last.execution_plan
    /\ \A i \in 1..Len(last.execution_plan.agent_plans) :
           agent_plan_valid(last.execution_plan.agent_plans[i])
    /\ \E i \in 1..Len(last.execution_plan.agent_plans) :
           last.execution_plan.agent_plans[i].dict.child_agent_name = KS

\* the quality-standard line for a number of tasks
QualityLineFor(n) ==
    IF n >= 5
    THEN <<"**QUALITY STANDARD**: Comprehensive coverage - ensure deep personalization">>
    ELSE IF n \in {3, 4}
    THEN <<"**QUALITY STANDARD**: Balanced approach - focus on core concepts with personalization">>
    ELSE <<"**QUALITY STANDARD**: Focused approach - prioritize essential concepts">>

\* the quality-standard lines of a guidance
QualityLines(lines) ==
    {i \in 1..Len(lines) : lines[i] \in {QualityLineFor(n) : n \in {0, 3, 5}}}

\* C27: for every execution plan with a knowledge_synthesizer entry the
\* guidance is derived, is not empty, and has exactly one quality-standard
\* line, chosen by the number of tasks of that entry: comprehensive coverage
\* for 5 or more, balanced approach for 3 or 4, focused approach for fewer
\* than 3, zero included.
C27_OneQualityStandard ==
    SynthesizerPlanGiven =>
        /\ IsOk(last.result)
        /\ last.result.ok # <<>>
        /\ Cardinality(QualityLines(last.result.ok)) = 1
        /\ \A i \in QualityLines(last.result.ok) :
               last.result.ok[i] = QualityLineFor(Len(SynthesizerTasks(last.execution_plan)))

C27_Witness ==
    /\ SynthesizerPlanGiven
    /\ Len(SynthesizerTasks(last.execution_plan)) = 5
    /\ IsOk(last.result)
    /\ last.result.ok[Len(last.result.ok)] =
           <<"**QUALITY STANDARD**: Comprehensive coverage - ensure deep personalization">>

\* the synthesis prompt of the assembler for the stored context
SynthesisPrompt == get_populated_prompt(raw_context, "knowledge_synthesizer")

\* generate_toc called the synthesis service
PromptSent == last.op = "generate_toc" /\ last.calls = 1

\* C30: the prompt generate_toc sends to the generation service is the
\* assembler's synthesis prompt and nothing else when the execution plan is
\* None or empty, and is that prompt followed by a STRATEGIC GUIDANCE section
\* when a non-empty plan is given, also for a plan without a
\* knowledge_synthesizer entry and for an entry without tasks.
C30_PromptWithGuidance ==
    PromptSent =>
        /\ IsOk(SynthesisPrompt)
        /\ last.prompt.template = SynthesisPrompt.ok.template
        /\ last.prompt.args = SynthesisPrompt.ok.args
        /\ IF last.execution_plan \in {None, EmptyDict}
           THEN last.prompt = SynthesisPrompt.ok
           ELSE /\ "strategic_guidance" \in DOMAIN last.prompt
                /\ last.prompt.strategic_guidance # <<>>

C30_Witness ==
    /\ PromptSent
    /\ last.execution_plan = PlanOf("<ks no tasks>")
    /\ last.prompt.strategic_guidance =
           << <<"**QUALITY STANDARD**: Focused approach - prioritize essential concepts">> >>

\* a run of _initial_research_node on a state without assembled context
NodeWithoutContext ==
    /\ last.op = "_initial_research_node"
    /\ (last.state.context = None \/ last.state.context = EmptyDict)

\* C29: when the state that reaches _initial_research_node holds no
\* assembled context, the node returns the state with an error entry and runs
\* neither the planner nor the synthesizer: no generation call is made, and
\* execution_plan and book_structure are the values the state had on entry.
C29_NoContextNoRun ==
    NodeWithoutContext =>
        /\ last.pc = "returned"
        /\ last.calls = 0
        /\ "planning" \notin DOMAIN last
        /\ IsOk(last.result)
        /\ "error" \in DOMAIN last.result.ok
        /\ last.result.ok.execution_plan = last.state.execution_plan
        /\ last.result.ok.book_structure = last.state.book_structure
        /\ \A k \in DOMAIN last.state : last.result.ok[k] = last.state[k]

C29_Witness ==
    /\ NodeWithoutContext
    /\ last.state.context = EmptyDict
    /\ last.state.execution_plan = FallbackPlan(T("AI"))
    /\ IsOk(last.result)
    /\ last.result.ok.error = "Assembled context not available"
    /\ last.result.ok.execution_plan = FallbackPlan(T("AI"))

====
